---------------------------- MODULE Spec2Model ----------------------------
(***************************************************************************)
(* Hybridnet IPAM: the pod allocation reconciler (PodReconciler) together  *)
(* with the Allocation Engine (IPAMManager) and the Binding Store          *)
(* (IPAMStore) it drives.                                                   *)
(*                                                                         *)
(* Every call the reconciler makes to the engine, to the store or to the   *)
(* API server is one step of the model, so that events of different pods   *)
(* interleave call by call.  Events of one pod never overlap (the work     *)
(* queue of controller-runtime hands a key to one worker at a time).       *)
(***************************************************************************)
EXTENDS Integers, Sequences, FiniteSets, TLC

\* ------------------------------------------------------------------ bounds
\* addresses per subnet (one IPv4 and one IPv6 subnet)
NumAddrs == 2

\* ------------------------------------------------------------- the universe
Pods == {"p1", "p2"}

Addrs4 == 1 .. NumAddrs
Addrs6 == (NumAddrs + 1) .. (2 * NumAddrs)
Addrs  == Addrs4 \cup Addrs6

IPv4 == "IPv4"
IPv6 == "IPv6"
DualStack == "DualStack"

Underlay  == "Underlay"
Overlay   == "Overlay"
GlobalBGP == "GlobalBGP"

OverlayNodeName   == "c3e6699d28e7"
GlobalBGPNodeName == "d7afdca2c149"

\* the one network that owns the two subnets
NetworkName == "net1"

VersionOf(a) == IF a \in Addrs4 THEN IPv4 ELSE IPv6
SubnetOf(a)  == IF a \in Addrs4 THEN "subnet4" ELSE "subnet6"

\* types.IP: the result of an engine call
IPOf(a) == [network |-> NetworkName, subnet |-> SubnetOf(a), address |-> a,
            version |-> VersionOf(a)]

RECURSIVE SeqOfSet(_)
\* a set of addresses as a list, IPv4 before IPv6, ascending
SeqOfSet(S) ==
    IF S = {} THEN << >>
    ELSE LET m == CHOOSE x \in S : \A y \in S : x <= y
         IN  << m >> \o SeqOfSet(S \ {m})

Range(s) == { s[i] : i \in 1 .. Len(s) }

squashIPSliceToIPs(ipl) == [ i \in 1 .. Len(ipl) |-> ipl[i].address ]

squashIPSliceToSubnets(ipl) == [ i \in 1 .. Len(ipl) |-> ipl[i].subnet ]

VARIABLES
    dualStack,        \* feature.DualStackEnabled()
    defaultIPRetain,  \* strategy.DefaultIPRetain
    networks,         \* node name -> names of the networks indexed under it
    listFails,        \* the node names for which listing the networks fails
    podSpec,          \* the intent a pod declares (owner, annotations, labels)
    pod,              \* the pod objects in the API server
    used,             \* Allocation Engine: the addresses marked used
    ipInstances,      \* Binding Store: the IPInstance resources
    pc,               \* per pod: where its Reconcile event stands
    ips,              \* per pod: the addresses the event got from the engine
    cands,            \* per pod: the candidate addresses of a forced assign
    todo,             \* per pod: the addresses release() still has to recycle
    calls,            \* per pod: the calls the current (or last) event made
    result,           \* per pod: what the last event returned
    delivery,         \* per pod: how the current (or last) event was delivered
    apiInstances,     \* node daemon: the IPInstance objects its client lists
    nic,              \* node daemon: the interface of the pod's namespace
    hpc,              \* node daemon: where the request being served stands
    handler,          \* node daemon: the handler serving the request
    ipFamily,         \* node daemon: the effective IP-family mode of the pod
    podFamily,        \* node daemon: what the add request read of the pod to
                      \* resolve that mode
    attempt,          \* node daemon: the index i of the poll loop, 0 outside it
    patchTries,       \* node daemon: the conflicts the status patch under way
                      \* has met
    ipInstanceList,   \* node daemon: the instances the last list attempt saw
    hcalls,           \* node daemon: the other calls the request made
    responses         \* node daemon: the responses written for the request

vars == << dualStack, defaultIPRetain, networks, listFails, podSpec, pod, used,
           ipInstances, pc, ips, cands, todo, calls, result, delivery,
           apiInstances, nic, hpc, handler, ipFamily, podFamily, attempt,
           patchTries,
           ipInstanceList, hcalls, responses >>

config == << dualStack, defaultIPRetain, networks, listFails, podSpec >>

\* the state of the node daemon's request handlers
handshake == << apiInstances, nic, hpc, handler, ipFamily, podFamily, attempt,
                patchTries,
                ipInstanceList, hcalls, responses >>

\* the state of the reconciler, its engine and its store
reconciler == << config, pod, used, ipInstances, pc, ips, cands, todo, calls,
                 result, delivery >>


\* ---------------------------------------------------------- pure functions
PickFirstNonEmptyString(a, b) == IF a # "" THEN a ELSE b

\* the three known types parse to themselves, anything else is no known type
ParseNetworkTypeFromString(s) ==
    IF s \in {Underlay, Overlay, GlobalBGP} THEN s ELSE "Unknown"

\* the value of the string when it is a boolean, the default otherwise
ParseBoolOrDefault(s, d) ==
    IF s = "true" THEN TRUE ELSE IF s = "false" THEN FALSE ELSE d

\* the pod asks for another family only in so many words
ParseIPFamilyFromString(s) ==
    IF s \in {IPv6, DualStack} THEN s ELSE IPv4

\* what an add request reads of the pod to resolve its mode: the IP-family
\* annotation, the handled-by-webhook annotation as parsed, and what the
\* network-config priority rules give ("" when they are not asked)
PodFamily(annotation, handledByWebhook, byPriority) ==
    [annotation |-> annotation, handledByWebhook |-> handledByWebhook,
     byPriority |-> byPriority]

\* no pod read
NoPodFamily == PodFamily("", FALSE, "")

\* utils.ListNetworks(r, MatchingFields{IndexerFieldNode: nodeName}), first
\* item; [name, err]: err = "" stands for a nil error
getNetworkByNodeNameIndexer(nodeName) ==
    IF nodeName \in listFails
    THEN [name |-> "", err |-> "unable to list network by indexer node name"]
    ELSE IF nodeName \in DOMAIN networks /\ Len(networks[nodeName]) >= 1
    THEN [name |-> networks[nodeName][1], err |-> ""]
    ELSE [name |-> "", err |-> ""]

\* selectNetwork that looks the pod's network type up first and takes the
\* explicit name only when the lookup finds nothing
selectNetworkTypeFirst(p) ==
    LET s == podSpec[p]
        specifiedNetwork == PickFirstNonEmptyString(s.networkAnn, s.networkLabel)
        networkType ==
            ParseNetworkTypeFromString(PickFirstNonEmptyString(s.typeAnn, s.typeLabel))
        node == CASE networkType = Underlay -> s.nodeName
                  [] networkType = Overlay -> OverlayNodeName
                  [] OTHER -> GlobalBGPNodeName
        r == getNetworkByNodeNameIndexer(node)
    IN  IF networkType # "Unknown" /\ r.err = "" /\ r.name # ""
        THEN [name |-> r.name, err |-> "", lookups |-> << node >>]
        ELSE IF specifiedNetwork # ""
        THEN [name |-> specifiedNetwork, err |-> "", lookups |-> << >>]
        ELSE [name |-> "", err |-> "unable to find network", lookups |-> << node >>]

\* selectNetwork that falls back to the network of the pod's node when the
\* lookup for the pod's type finds nothing
selectNetworkNodeDefault(p) ==
    LET s == podSpec[p]
        specifiedNetwork == PickFirstNonEmptyString(s.networkAnn, s.networkLabel)
        networkType ==
            ParseNetworkTypeFromString(PickFirstNonEmptyString(s.typeAnn, s.typeLabel))
        node == CASE networkType = Underlay -> s.nodeName
                  [] networkType = Overlay -> OverlayNodeName
                  [] OTHER -> GlobalBGPNodeName
        r == getNetworkByNodeNameIndexer(node)
    IN  IF specifiedNetwork # ""
        THEN [name |-> specifiedNetwork, err |-> "", lookups |-> << >>]
        ELSE IF networkType # "Unknown" /\ r.err = "" /\ r.name # ""
        THEN [name |-> r.name, err |-> "", lookups |-> << node >>]
        ELSE [name |-> NetworkName, err |-> "", lookups |-> << node >>]

\* [name, err, lookups]: err = "" stands for a nil error, lookups are the node
\* names the networks were listed for
selectNetwork(p) ==
    LET s == podSpec[p]
        specifiedNetwork == PickFirstNonEmptyString(s.networkAnn, s.networkLabel)
        networkType ==
            ParseNetworkTypeFromString(PickFirstNonEmptyString(s.typeAnn, s.typeLabel))
        byNode(n, getMsg, findMsg) ==
            LET r == getNetworkByNodeNameIndexer(n)
            IN  IF r.err # ""
                THEN [name |-> "", err |-> getMsg, lookups |-> << n >>]
                ELSE IF r.name # ""
                THEN [name |-> r.name, err |-> "", lookups |-> << n >>]
                ELSE [name |-> "", err |-> findMsg, lookups |-> << n >>]
    IN  IF specifiedNetwork # ""
        THEN [name |-> specifiedNetwork, err |-> "", lookups |-> << >>]
        ELSE CASE networkType = Underlay ->
                    byNode(s.nodeName,
                           "unable to get underlay network by node name indexer",
                           "unable to find underlay network")
               [] networkType = Overlay ->
                    byNode(OverlayNodeName,
                           "unable to get overlay network by node name indexer",
                           "unable to find overlay network")
               [] networkType = GlobalBGP ->
                    byNode(GlobalBGPNodeName,
                           "unable to get overlay network by node name indexer",
                           "unable to find global bgp network")
               [] OTHER -> [name |-> "", err |-> "unknown network type",
                            lookups |-> << >>]

\* the ordinal a stateful pod carries in its name
GetIndexFromName(p) == IF p = "p1" THEN 1 ELSE 0

\* a pool entry is the list of addresses between its "/" separators; as one
\* address it is valid only when it names exactly one
NormalizedIP(entry) == IF Len(entry) = 1 THEN entry[1] ELSE 0

preAssign(p) == Len(podSpec[p].ipPool) > 0

\* the retention decision taken from the cluster default alone
shouldReallocateClusterOnly(p) == ~ defaultIPRetain

shouldReallocate(p) == ~ ParseBoolOrDefault(podSpec[p].ipRetain, defaultIPRetain)

\* ----------------------------------------------------- Allocation Engine
\* the families an Allocate call serves
FamilyVersions(p) ==
    IF ~ dualStack THEN << IPv4 >>
    ELSE LET f == ParseIPFamilyFromString(podSpec[p].ipFamily)
         IN  IF f = DualStack THEN << IPv4, IPv6 >> ELSE << f >>

\* the results Allocate may return: one free address of the network per family
EngineAllocate(network, versions) ==
    IF network # NetworkName THEN {}
    ELSE IF Len(versions) = 1
         THEN { << IPOf(a) >> : a \in { x \in Addrs \ used : VersionOf(x) = versions[1] } }
         ELSE { << IPOf(a), IPOf(b) >> :
                  a \in { x \in Addrs \ used : VersionOf(x) = versions[1] },
                  b \in { x \in Addrs \ used : VersionOf(x) = versions[2] } }

\* a forced Assign marks the candidates used whether or not they were free
EngineAssign(cs) == used \cup Range(cs)

EngineRelease(addrs) == used \ addrs

\* ---------------------------------------------------------- Binding Store
Using    == "Using"
Reserved == "Reserved"

IPInstance(a, p, ph) == [address |-> a, pod |-> p, phase |-> ph]

InstancesOf(p) == { i \in ipInstances : i.pod = p }

StoreCouple(p, ipl) ==
    ipInstances \cup { IPInstance(ipl[k].address, p, Using) : k \in 1 .. Len(ipl) }

StoreReCouple(p, ipl) ==
    LET as == Range(squashIPSliceToIPs(ipl))
    IN  { i \in ipInstances : ~ (i.pod = p /\ i.address \in as) }
          \cup { IPInstance(a, p, Using) : a \in as }

StoreDeCouple(p) == ipInstances \ InstancesOf(p)

StoreIPReserve(p) ==
    { i \in ipInstances : i.pod # p }
      \cup { IPInstance(i.address, p, Reserved) : i \in InstancesOf(p) }

StoreIPRecycle(ip) == { i \in ipInstances : i.address # ip.address }

\* utils.ListAllocatedIPInstancesOfPod, through transform.TransferIPInstancesForIPAM
ListAllocatedIPInstancesOfPod(p) ==
    LET l == SeqOfSet({ i.address : i \in InstancesOf(p) })
    IN  [ k \in 1 .. Len(l) |-> IPOf(l[k]) ]

\* utils.ListIPsOfPod
ListIPsOfPod(p) == SeqOfSet({ i.address : i \in InstancesOf(p) })

\* utils.GetIPOfPod: the first address of the pod, 0 for none
GetIPOfPod(p) ==
    LET l == ListIPsOfPod(p) IN IF Len(l) = 0 THEN 0 ELSE l[1]


\* ------------------------------------------------------------------ calls
\* one call of the reconciler to a collaborator, as the event log keeps it
Call(op, ipl, forced, ok) == [op |-> op, ips |-> ipl, forced |-> forced, ok |-> ok]

Log(p, c) == [calls EXCEPT ![p] = Append(@, c)]

Goto(p, label) == [pc EXCEPT ![p] = label]

Return(p, r) == [result EXCEPT ![p] = r]

Running == "running"
Nil     == "nil"

\* ------------------------------------------------------------------- Init
PodSpecOf(st, pool, retain, fam, typ) ==
    [stateful |-> st, networkAnn |-> "", networkLabel |-> "", typeAnn |-> typ,
     typeLabel |-> "", nodeName |-> "node1", ipPool |-> pool, ipRetain |-> retain,
     ipFamily |-> fam, hostNetwork |-> FALSE]

\* the IP-pool annotations tried: none, too short for the ordinal of p1, one
\* address per entry, a two-family entry, and an empty entry (0 stands for the
\* empty string, which is no address)
Pools == { << >>,
           << << 1 >> >>,
           << << 2 >>, << 1 >> >>,
           << << 2 >>, << 1, NumAddrs + 1 >> >>,
           << << 2 >>, << 0 >> >> }

\* a pod as the API server holds it when it has just been scheduled
FreshPod == [exists |-> TRUE, deleting |-> FALSE, terminated |-> FALSE,
             annotationIP |-> FALSE, finalizer |-> FALSE]

\* the overlay fabric and node1 carry net1; nothing is bound for global BGP
InitNetworks == [ n \in {OverlayNodeName, "node1"} |-> << NetworkName >> ]

\* a pod that is not in the API server
NoPod == [exists |-> FALSE, deleting |-> FALSE, terminated |-> FALSE,
          annotationIP |-> FALSE, finalizer |-> FALSE]

\* no request is being served, nothing is coupled, no interface is set up
\* how an event reached the reconciler: as the first one after the pod (or
\* its intent) changed, or again with nothing changed since the event before
\* it, which returned nil ("success") or an error; a re-delivered event keeps
\* the engine and store state it started from
Delivery(prev, u, inst) == [prev |-> prev, used |-> u, ipInstances |-> inst]

Changed == Delivery("changed", {}, {})

Deliver(p) ==
    [delivery EXCEPT ![p] =
        IF @.prev = "changed" THEN Delivery("first", {}, {})
        ELSE Delivery(IF result[p] = Nil THEN "success" ELSE "error",
                      used, ipInstances)]

InitHandlers ==
    /\ apiInstances = {}
    /\ nic = "absent"
    /\ hpc = "idle"
    /\ handler = ""
    /\ ipFamily = ""
    /\ patchTries = 0
    /\ podFamily = NoPodFamily
    /\ attempt = 0
    /\ ipInstanceList = << >>
    /\ hcalls = << >>
    /\ responses = << >>

InitEvents ==
    /\ InitHandlers
    /\ used = {}
    /\ ipInstances = {}
    /\ pc = [p \in Pods |-> "idle"]
    /\ ips = [p \in Pods |-> << >>]
    /\ cands = [p \in Pods |-> << >>]
    /\ todo = [p \in Pods |-> << >>]
    /\ calls = [p \in Pods |-> << >>]
    /\ result = [p \in Pods |-> Nil]
    /\ delivery = [p \in Pods |-> Changed]

\* p1 has just been scheduled and declares any intent; there is no pod p2,
\* whose events find nothing to fetch
Init ==
    /\ dualStack \in BOOLEAN
    /\ defaultIPRetain \in BOOLEAN
    /\ networks = InitNetworks
    /\ listFails = {}
    /\ \E st \in BOOLEAN, pool \in Pools, retain \in {"", "true", "false"},
          fam \in {IPv4, DualStack}, typ \in {Overlay, GlobalBGP} :
          podSpec = [p \in Pods |->
                       IF p = "p1" THEN PodSpecOf(st, pool, retain, fam, typ)
                       ELSE PodSpecOf(FALSE, << >>, "", IPv4, Overlay)]
    /\ pod = [p \in Pods |-> IF p = "p1" THEN FreshPod ELSE NoPod]
    /\ InitEvents

\* --------------------------------------------------------------- Reconcile
\* the entry states without the check of the address-assigned annotation
EntryBranchNoFence(p) ==
    LET o == pod[p]
    IN  IF ~ o.exists THEN [pc |-> "idle", result |-> Nil]
        ELSE IF o.deleting
        THEN IF podSpec[p].stateful
             THEN [pc |-> "reserve", result |-> Running]
             ELSE [pc |-> "idle", result |-> Nil]
        ELSE IF o.terminated THEN [pc |-> "decouple", result |-> Running]
        ELSE IF selectNetwork(p).err # ""
        THEN [pc |-> "idle", result |-> "unable to select network"]
        ELSE IF podSpec[p].stateful
        THEN [pc |-> "addFinalizer", result |-> Running]
        ELSE [pc |-> "allocate", result |-> Running]

\* the entry states of a Reconcile that allocates for stateful pods only
EntryBranchStatefulOnly(p) ==
    LET o == pod[p]
    IN  IF ~ o.exists THEN [pc |-> "idle", result |-> Nil]
        ELSE IF o.deleting
        THEN IF podSpec[p].stateful
             THEN [pc |-> "reserve", result |-> Running]
             ELSE [pc |-> "idle", result |-> Nil]
        ELSE IF o.terminated THEN [pc |-> "decouple", result |-> Running]
        ELSE IF o.annotationIP THEN [pc |-> "idle", result |-> Nil]
        ELSE IF selectNetwork(p).err # ""
        THEN [pc |-> "idle", result |-> "unable to select network"]
        ELSE IF podSpec[p].stateful
        THEN [pc |-> "addFinalizer", result |-> Running]
        ELSE [pc |-> "idle", result |-> Nil]

\* the entry states of a Reconcile that decouples deleting stateless pods
EntryBranchDeletingDecouples(p) ==
    LET o == pod[p]
    IN  IF ~ o.exists THEN [pc |-> "idle", result |-> Nil]
        ELSE IF o.deleting
        THEN IF podSpec[p].stateful
             THEN [pc |-> "reserve", result |-> Running]
             ELSE [pc |-> "decouple", result |-> Running]
        ELSE IF o.terminated THEN [pc |-> "decouple", result |-> Running]
        ELSE IF o.annotationIP THEN [pc |-> "idle", result |-> Nil]
        ELSE IF selectNetwork(p).err # ""
        THEN [pc |-> "idle", result |-> "unable to select network"]
        ELSE IF podSpec[p].stateful
        THEN [pc |-> "addFinalizer", result |-> Running]
        ELSE [pc |-> "allocate", result |-> Running]

\* the entry states with the fence checked before eviction and completion
EntryBranchFenceFirst(p) ==
    LET o == pod[p]
    IN  IF ~ o.exists THEN [pc |-> "idle", result |-> Nil]
        ELSE IF o.deleting
        THEN IF podSpec[p].stateful
             THEN [pc |-> "reserve", result |-> Running]
             ELSE [pc |-> "idle", result |-> Nil]
        ELSE IF o.annotationIP THEN [pc |-> "idle", result |-> Nil]
        ELSE IF o.terminated THEN [pc |-> "decouple", result |-> Running]
        ELSE IF selectNetwork(p).err # ""
        THEN [pc |-> "idle", result |-> "unable to select network"]
        ELSE IF podSpec[p].stateful
        THEN [pc |-> "addFinalizer", result |-> Running]
        ELSE [pc |-> "allocate", result |-> Running]

\* the entry states with the finalizer of a stateful pod added before the
\* network is selected
EntryBranchFinalizerBeforeSelect(p) ==
    LET o == pod[p]
    IN  IF ~ o.exists THEN [pc |-> "idle", result |-> Nil]
        ELSE IF o.deleting
        THEN IF podSpec[p].stateful
             THEN [pc |-> "reserve", result |-> Running]
             ELSE [pc |-> "idle", result |-> Nil]
        ELSE IF o.terminated THEN [pc |-> "decouple", result |-> Running]
        ELSE IF o.annotationIP THEN [pc |-> "idle", result |-> Nil]
        ELSE IF podSpec[p].stateful
        THEN [pc |-> "addFinalizer", result |-> Running]
        ELSE IF selectNetwork(p).err # ""
        THEN [pc |-> "idle", result |-> "unable to select network"]
        ELSE [pc |-> "allocate", result |-> Running]

\* the entry state Reconcile takes for the pod it fetched, first match wins
EntryBranch(p) ==
    LET o == pod[p]
    IN  IF ~ o.exists THEN [pc |-> "idle", result |-> Nil]
        ELSE IF o.deleting
        THEN IF podSpec[p].stateful
             THEN [pc |-> "reserve", result |-> Running]
             ELSE [pc |-> "idle", result |-> Nil]
        ELSE IF o.terminated THEN [pc |-> "decouple", result |-> Running]
        ELSE IF o.annotationIP THEN [pc |-> "idle", result |-> Nil]
        ELSE IF selectNetwork(p).err # ""
        THEN [pc |-> "idle", result |-> "unable to select network"]
        ELSE IF podSpec[p].stateful
        THEN [pc |-> "addFinalizer", result |-> Running]
        ELSE [pc |-> "allocate", result |-> Running]

\* an event for pod p is taken off the queue, delivered as d: fetch the pod,
\* pick the entry state
Event(p, d) ==
    /\ pc[p] = "idle"
    /\ LET b == EntryBranch(p)
       IN  /\ pc' = Goto(p, b.pc)
           /\ result' = Return(p, b.result)
    /\ calls' = [calls EXCEPT ![p] = << >>]
    /\ ips' = [ips EXCEPT ![p] = << >>]
    /\ cands' = [cands EXCEPT ![p] = << >>]
    /\ todo' = [todo EXCEPT ![p] = << >>]
    /\ delivery' = d
    /\ UNCHANGED << handshake, config, pod, used, ipInstances >>

Reconcile(p) == Event(p, delivery)

\* the event, with the way it was delivered kept
Redelivery(p) == Event(p, Deliver(p))

\* ---------------------------------------------------------- deleting pods
\* reserve whose error does not stop the removal of the finalizer
ReserveIgnoringError(p) ==
    /\ pc[p] = "reserve"
    /\ \E ok \in BOOLEAN :
         /\ calls' = Log(p, Call("IPReserve", << >>, FALSE, ok))
         /\ ipInstances' = IF ok THEN StoreIPReserve(p) ELSE ipInstances
         /\ pc' = Goto(p, "removeFinalizer")
         /\ UNCHANGED result
    /\ UNCHANGED << handshake, delivery, config, pod, used, ips, cands, todo >>

\* reserve: IPAMStore.IPReserve (or its dual-stack variant)
Reserve(p) ==
    /\ pc[p] = "reserve"
    /\ \E ok \in BOOLEAN :
         /\ calls' = Log(p, Call("IPReserve", << >>, FALSE, ok))
         /\ IF ok
            THEN /\ ipInstances' = StoreIPReserve(p)
                 /\ pc' = Goto(p, "removeFinalizer")
                 /\ UNCHANGED result
            ELSE /\ pc' = Goto(p, "idle")
                 /\ result' = Return(p, "unable to reserve pod")
                 /\ UNCHANGED ipInstances
    /\ UNCHANGED << handshake, delivery, config, pod, used, ips, cands, todo >>

\* removeFinalizer: patch the pod unless the finalizer is already gone
RemoveFinalizer(p) ==
    /\ pc[p] = "removeFinalizer"
    /\ pc' = Goto(p, "idle")
    /\ IF ~ pod[p].finalizer
       THEN /\ result' = Return(p, Nil)
            /\ UNCHANGED << pod, calls >>
       ELSE \E ok \in { b \in BOOLEAN : b => pod[p].exists } :
              /\ calls' = Log(p, Call("PatchRemoveFinalizer", << >>, FALSE, ok))
              /\ IF ok
                 THEN /\ pod' = [pod EXCEPT ![p].finalizer = FALSE]
                      /\ result' = Return(p, Nil)
                 ELSE /\ result' = Return(p, "unable to remote finalizer")
                      /\ UNCHANGED pod
    /\ UNCHANGED << handshake, delivery, config, used, ipInstances, ips, cands, todo >>

\* decouple that takes a pod with nothing bound for an error
DecoupleNothingBoundIsError(p) ==
    /\ pc[p] = "decouple"
    /\ pc' = Goto(p, "idle")
    /\ \E ok \in BOOLEAN :
         /\ calls' = Log(p, Call("DeCouple", << >>, FALSE, ok))
         /\ IF ok /\ InstancesOf(p) # {}
            THEN /\ ipInstances' = StoreDeCouple(p)
                 /\ used' = EngineRelease({ i.address : i \in InstancesOf(p) })
                 /\ result' = Return(p, Nil)
            ELSE /\ result' = Return(p, "unable to decouple pod")
                 /\ UNCHANGED << ipInstances, used >>
    /\ UNCHANGED << handshake, delivery, config, pod, ips, cands, todo >>

\* decouple: IPAMStore.DeCouple; the store drops the bindings of the pod and
\* the addresses go back to the engine
Decouple(p) ==
    /\ pc[p] = "decouple"
    /\ pc' = Goto(p, "idle")
    /\ \E ok \in BOOLEAN :
         /\ calls' = Log(p, Call("DeCouple", << >>, FALSE, ok))
         /\ IF ok
            THEN /\ ipInstances' = StoreDeCouple(p)
                 /\ used' = EngineRelease({ i.address : i \in InstancesOf(p) })
                 /\ result' = Return(p, Nil)
            ELSE /\ result' = Return(p, "unable to decouple pod")
                 /\ UNCHANGED << ipInstances, used >>
    /\ UNCHANGED << handshake, delivery, config, pod, ips, cands, todo >>


\* ------------------------------------------------------- statefulAllocate
\* the sub-path of a statefulAllocate that looks at the retention decision
\* before it looks at the IP pool
StatefulBranchReallocateFirst(p) ==
    LET ipPool == podSpec[p].ipPool
        idx    == GetIndexFromName(p)
        none   == [pc |-> "idle", result |-> "no available ip in ip-pool",
                   cands |-> << >>]
    IN  IF shouldReallocate(p)
        THEN [pc |-> "listAllocated", result |-> Running, cands |-> << >>]
        ELSE IF preAssign(p)
        THEN IF dualStack
             THEN IF idx < Len(ipPool)
                  THEN [pc |-> "assign", result |-> Running, cands |-> ipPool[idx + 1]]
                  ELSE none
             ELSE LET ipCandidate ==
                          IF idx < Len(ipPool) THEN NormalizedIP(ipPool[idx + 1]) ELSE 0
                  IN  IF ipCandidate = 0 THEN none
                      ELSE [pc |-> "assign", result |-> Running,
                            cands |-> << ipCandidate >>]
        ELSE [pc |-> "listIPs", result |-> Running, cands |-> << >>]

\* the sub-path statefulAllocate takes once the finalizer is in place
StatefulBranch(p) ==
    LET ipPool == podSpec[p].ipPool
        idx    == GetIndexFromName(p)
        none   == [pc |-> "idle", result |-> "no available ip in ip-pool",
                   cands |-> << >>]
    IN  IF preAssign(p)
        THEN IF dualStack
             THEN IF idx < Len(ipPool)
                  THEN [pc |-> "assign", result |-> Running, cands |-> ipPool[idx + 1]]
                  ELSE none
             ELSE LET ipCandidate ==
                          IF idx < Len(ipPool) THEN NormalizedIP(ipPool[idx + 1]) ELSE 0
                  IN  IF ipCandidate = 0 THEN none
                      ELSE [pc |-> "assign", result |-> Running,
                            cands |-> << ipCandidate >>]
        ELSE IF shouldReallocate(p)
        THEN [pc |-> "listAllocated", result |-> Running, cands |-> << >>]
        ELSE [pc |-> "listIPs", result |-> Running, cands |-> << >>]

\* addFinalizer whose error is dropped: the sub-path is taken all the same
AddFinalizerBestEffort(p) ==
    /\ pc[p] = "addFinalizer"
    /\ pc' = Goto(p, StatefulBranch(p).pc)
    /\ result' = Return(p, StatefulBranch(p).result)
    /\ cands' = [cands EXCEPT ![p] = StatefulBranch(p).cands]
    /\ IF pod[p].finalizer
       THEN UNCHANGED << pod, calls >>
       ELSE \E ok \in { b \in BOOLEAN : b => pod[p].exists } :
              /\ calls' = Log(p, Call("PatchAddFinalizer", << >>, FALSE, ok))
              /\ pod' = IF ok THEN [pod EXCEPT ![p].finalizer = TRUE] ELSE pod
    /\ UNCHANGED << handshake, delivery, config, used, ipInstances, ips, todo >>

\* addFinalizer, then the choice of the sub-path
AddFinalizer(p) ==
    /\ pc[p] = "addFinalizer"
    /\ LET go == /\ pc' = Goto(p, StatefulBranch(p).pc)
                 /\ result' = Return(p, StatefulBranch(p).result)
                 /\ cands' = [cands EXCEPT ![p] = StatefulBranch(p).cands]
       IN  IF pod[p].finalizer
           THEN go /\ UNCHANGED << pod, calls >>
           ELSE \E ok \in { b \in BOOLEAN : b => pod[p].exists } :
                  /\ calls' = Log(p, Call("PatchAddFinalizer", << >>, FALSE, ok))
                  /\ IF ok
                     THEN go /\ pod' = [pod EXCEPT ![p].finalizer = TRUE]
                     ELSE /\ pc' = Goto(p, "idle")
                          /\ result' = Return(p, "unable to add finalizer for stateful pod")
                          /\ UNCHANGED << pod, cands >>
    /\ UNCHANGED << handshake, delivery, config, used, ipInstances, ips, todo >>

\* reallocate: utils.ListAllocatedIPInstancesOfPod
ListAllocated(p) ==
    /\ pc[p] = "listAllocated"
    /\ \E ok \in BOOLEAN :
         /\ calls' = Log(p, Call("ListAllocatedIPInstancesOfPod", << >>, FALSE, ok))
         /\ IF ok
            THEN LET allocatedIPs == ListAllocatedIPInstancesOfPod(p)
                 IN  /\ todo' = [todo EXCEPT ![p] = allocatedIPs]
                     /\ pc' = Goto(p, IF Len(allocatedIPs) > 0 THEN "recycle"
                                      ELSE "allocate")
                     /\ UNCHANGED result
            ELSE /\ pc' = Goto(p, "idle")
                 /\ result' = Return(p, "unable to list allocated ip instances")
                 /\ UNCHANGED todo
    /\ UNCHANGED << handshake, delivery, config, pod, used, ipInstances, ips, cands >>

\* release whose loop goes on past an IPRecycle error
RecycleIgnoringError(p) ==
    /\ pc[p] = "recycle"
    /\ \E ok \in BOOLEAN :
         /\ calls' = Log(p, Call("IPRecycle", << todo[p][1] >>, FALSE, ok))
         /\ ipInstances' = IF ok THEN StoreIPRecycle(todo[p][1]) ELSE ipInstances
         /\ used' = IF ok THEN EngineRelease({ todo[p][1].address }) ELSE used
         /\ todo' = [todo EXCEPT ![p] = Tail(@)]
         /\ pc' = Goto(p, IF Len(todo[p]) > 1 THEN "recycle" ELSE "allocate")
         /\ UNCHANGED result
    /\ UNCHANGED << handshake, delivery, config, pod, ips, cands >>

\* release: one IPAMStore.IPRecycle of its loop; the store drops the binding
\* and the address goes back to the engine
Recycle(p) ==
    /\ pc[p] = "recycle"
    /\ \E ok \in BOOLEAN :
         /\ calls' = Log(p, Call("IPRecycle", << todo[p][1] >>, FALSE, ok))
         /\ IF ok
            THEN /\ ipInstances' = StoreIPRecycle(todo[p][1])
                 /\ used' = EngineRelease({ todo[p][1].address })
                 /\ todo' = [todo EXCEPT ![p] = Tail(@)]
                 /\ pc' = Goto(p, IF Len(todo[p]) > 1 THEN "recycle" ELSE "allocate")
                 /\ UNCHANGED result
            ELSE /\ pc' = Goto(p, "idle")
                 /\ result' = Return(p, "unable to release before reallocate")
                 /\ UNCHANGED << ipInstances, used, todo >>
    /\ UNCHANGED << handshake, delivery, config, pod, ips, cands >>

\* the default branch taking every creation for the first one
ListIPsAlwaysAllocate(p) ==
    /\ pc[p] = "listIPs"
    /\ \E ok \in BOOLEAN :
         /\ calls' = Log(p, Call("ListIPsOfPod", << >>, FALSE, ok))
         /\ IF ok
            THEN /\ pc' = Goto(p, "allocate")
                 /\ UNCHANGED result
            ELSE /\ pc' = Goto(p, "idle")
                 /\ result' = Return(p, "unable to list ips of pod")
    /\ UNCHANGED << handshake, delivery >>
    /\ UNCHANGED << config, pod, used, ipInstances, ips, cands, todo >>

\* default: utils.ListIPsOfPod (dual-stack) or utils.GetIPOfPod
ListIPs(p) ==
    /\ pc[p] = "listIPs"
    /\ \E ok \in BOOLEAN :
         /\ calls' = Log(p, Call("ListIPsOfPod", << >>, FALSE, ok))
         /\ IF ok
            THEN LET ipCandidates ==
                         IF dualStack THEN ListIPsOfPod(p)
                         ELSE IF GetIPOfPod(p) = 0 THEN << >>
                         ELSE << GetIPOfPod(p) >>
                 IN  /\ cands' = [cands EXCEPT ![p] = ipCandidates]
                     /\ pc' = Goto(p, IF Len(ipCandidates) = 0 THEN "allocate"
                                      ELSE "assign")
                     /\ UNCHANGED result
            ELSE /\ pc' = Goto(p, "idle")
                 /\ result' = Return(p, "unable to list ips of pod")
                 /\ UNCHANGED cands
    /\ UNCHANGED << handshake, delivery, config, pod, used, ipInstances, ips, todo >>

\* ---------------------------------------------------------------- allocate
\* allocate: IPAMManager.Allocate (or its dual-stack variant)
Allocate(p) ==
    /\ pc[p] = "allocate"
    /\ \/ \E r \in EngineAllocate(selectNetwork(p).name, FamilyVersions(p)) :
            /\ calls' = Log(p, Call("Allocate", r, FALSE, TRUE))
            /\ used' = used \cup Range(squashIPSliceToIPs(r))
            /\ ips' = [ips EXCEPT ![p] = r]
            /\ pc' = Goto(p, "couple")
            /\ UNCHANGED result
       \/ /\ calls' = Log(p, Call("Allocate", << >>, FALSE, FALSE))
          /\ pc' = Goto(p, "idle")
          /\ result' = Return(p, "unable to allocate ip")
          /\ UNCHANGED << used, ips >>
    /\ UNCHANGED << handshake, delivery, config, pod, ipInstances, cands, todo >>

\* Couple whose error returns at once, with no deferred release
CoupleNoRelease(p) ==
    /\ pc[p] = "couple"
    /\ pc' = Goto(p, "idle")
    /\ \E ok \in { b \in BOOLEAN : b => pod[p].exists } :
         /\ calls' = Log(p, Call("Couple", ips[p], FALSE, ok))
         /\ IF ok
            THEN /\ ipInstances' = StoreCouple(p, ips[p])
                 /\ pod' = [pod EXCEPT ![p].annotationIP = TRUE]
                 /\ result' = Return(p, Nil)
            ELSE /\ result' = Return(p, "unable to couple ip with pod")
                 /\ UNCHANGED << ipInstances, pod >>
    /\ UNCHANGED << handshake, delivery, config, used, ips, cands, todo >>

\* Couple with a deferred release that does not look at the error
CoupleReleaseAlways(p) ==
    /\ pc[p] = "couple"
    /\ \E ok \in { b \in BOOLEAN : b => pod[p].exists } :
         /\ calls' = Log(p, Call("Couple", ips[p], FALSE, ok))
         /\ pc' = Goto(p, "allocateRelease")
         /\ IF ok
            THEN /\ ipInstances' = StoreCouple(p, ips[p])
                 /\ pod' = [pod EXCEPT ![p].annotationIP = TRUE]
                 /\ result' = Return(p, Nil)
            ELSE /\ result' = Return(p, "unable to couple ip with pod")
                 /\ UNCHANGED << ipInstances, pod >>
    /\ UNCHANGED << handshake, delivery, config, used, ips, cands, todo >>

\* allocate: IPAMStore.Couple; on an error the deferred release is still to run
Couple(p) ==
    /\ pc[p] = "couple"
    /\ \E ok \in { b \in BOOLEAN : b => pod[p].exists } :
         /\ calls' = Log(p, Call("Couple", ips[p], FALSE, ok))
         /\ IF ok
            THEN /\ ipInstances' = StoreCouple(p, ips[p])
                 /\ pod' = [pod EXCEPT ![p].annotationIP = TRUE]
                 /\ pc' = Goto(p, "idle")
                 /\ result' = Return(p, Nil)
            ELSE /\ pc' = Goto(p, "allocateRelease")
                 /\ result' = Return(p, "unable to couple ip with pod")
                 /\ UNCHANGED << ipInstances, pod >>
    /\ UNCHANGED << handshake, delivery, config, used, ips, cands, todo >>

\* a deferred release that gives back the first address only
AllocateReleaseFirst(p) ==
    /\ pc[p] = "allocateRelease"
    /\ \E ok \in BOOLEAN :
         /\ calls' = Log(p, Call("Release", << ips[p][1] >>, FALSE, ok))
         /\ used' = IF ok THEN EngineRelease({ ips[p][1].address }) ELSE used
    /\ pc' = Goto(p, "idle")
    /\ UNCHANGED << handshake, delivery >>
    /\ UNCHANGED << config, pod, ipInstances, ips, cands, todo, result >>

\* a deferred release whose own error replaces the error of the event
AllocateReleaseReturnsItsError(p) ==
    /\ pc[p] = "allocateRelease"
    /\ \E ok \in BOOLEAN :
         /\ calls' = Log(p, Call("Release", ips[p], FALSE, ok))
         /\ used' = IF ok THEN EngineRelease(Range(squashIPSliceToIPs(ips[p])))
                    ELSE used
         /\ result' = IF ok THEN result ELSE Return(p, "unable to release ip")
    /\ pc' = Goto(p, "idle")
    /\ UNCHANGED << handshake, delivery >>
    /\ UNCHANGED << config, pod, ipInstances, ips, cands, todo >>

\* allocate: the deferred IPAMManager.Release; its error is dropped
AllocateRelease(p) ==
    /\ pc[p] = "allocateRelease"
    /\ \E ok \in BOOLEAN :
         /\ calls' = Log(p, Call("Release", ips[p], FALSE, ok))
         /\ used' = IF ok THEN EngineRelease(Range(squashIPSliceToIPs(ips[p])))
                    ELSE used
    /\ pc' = Goto(p, "idle")
    /\ UNCHANGED << handshake, delivery >>
    /\ UNCHANGED << config, pod, ipInstances, ips, cands, todo, result >>

\* ------------------------------------------------------ assign, multiAssign
\* IPAMManager.Assign with forced = true for the candidates
Assign(p) ==
    /\ pc[p] = "assign"
    /\ \E ok \in { b \in BOOLEAN : b => /\ selectNetwork(p).name = NetworkName
                                        /\ Range(cands[p]) \subseteq Addrs } :
         IF ok
         THEN LET r == [ k \in 1 .. Len(cands[p]) |-> IPOf(cands[p][k]) ]
              IN  /\ calls' = Log(p, Call("Assign", r, TRUE, TRUE))
                  /\ used' = EngineAssign(cands[p])
                  /\ ips' = [ips EXCEPT ![p] = r]
                  /\ pc' = Goto(p, "recouple")
                  /\ UNCHANGED result
         ELSE /\ calls' = Log(p, Call("Assign", << >>, TRUE, FALSE))
              /\ pc' = Goto(p, "idle")
              /\ result' = Return(p, "unable to assign")
              /\ UNCHANGED << used, ips >>
    /\ UNCHANGED << handshake, delivery, config, pod, ipInstances, cands, todo >>

\* a ReCouple whose error is returned with no deferred release to run
ReCoupleReturnsAtOnce(p) ==
    /\ pc[p] = "recouple"
    /\ \E ok \in { b \in BOOLEAN : b => pod[p].exists } :
         /\ calls' = Log(p, Call("ReCouple", ips[p], FALSE, ok))
         /\ IF ok
            THEN /\ ipInstances' = StoreReCouple(p, ips[p])
                 /\ pod' = [pod EXCEPT ![p].annotationIP = TRUE]
                 /\ pc' = Goto(p, "idle")
                 /\ result' = Return(p, Nil)
            ELSE /\ pc' = Goto(p, "idle")
                 /\ result' = Return(p, "unable to force-couple ip with pod")
                 /\ UNCHANGED << ipInstances, pod >>
    /\ UNCHANGED << handshake, delivery, config, used, ips, cands, todo >>

\* IPAMStore.ReCouple; on an error the deferred release is still to run
ReCouple(p) ==
    /\ pc[p] = "recouple"
    /\ \E ok \in { b \in BOOLEAN : b => pod[p].exists } :
         /\ calls' = Log(p, Call("ReCouple", ips[p], FALSE, ok))
         /\ IF ok
            THEN /\ ipInstances' = StoreReCouple(p, ips[p])
                 /\ pod' = [pod EXCEPT ![p].annotationIP = TRUE]
                 /\ pc' = Goto(p, "idle")
                 /\ result' = Return(p, Nil)
            ELSE /\ pc' = Goto(p, "assignRelease")
                 /\ result' = Return(p, "unable to force-couple ip with pod")
                 /\ UNCHANGED << ipInstances, pod >>
    /\ UNCHANGED << handshake, delivery, config, used, ips, cands, todo >>

\* assign: the deferred IPAMManager.Release; its error is dropped
AssignRelease(p) ==
    /\ pc[p] = "assignRelease"
    /\ \E ok \in BOOLEAN :
         /\ calls' = Log(p, Call("Release", ips[p], FALSE, ok))
         /\ used' = IF ok THEN EngineRelease(Range(squashIPSliceToIPs(ips[p])))
                    ELSE used
    /\ pc' = Goto(p, "idle")
    /\ UNCHANGED << handshake, delivery >>
    /\ UNCHANGED << config, pod, ipInstances, ips, cands, todo, result >>

\* ---------------------------------------------------------- the pod's life
\* the pod is evicted or runs to completion
Terminate(p) ==
    /\ pod[p].exists /\ ~ pod[p].terminated
    /\ pod' = [pod EXCEPT ![p].terminated = TRUE]
    /\ delivery' = [delivery EXCEPT ![p] = Changed]
    /\ UNCHANGED handshake
    /\ UNCHANGED << config, used, ipInstances, pc, ips, cands, todo, calls, result >>

\* the pod gets its deletion timestamp
MarkDeleting(p) ==
    /\ pod[p].exists /\ ~ pod[p].deleting
    /\ pod' = [pod EXCEPT ![p].deleting = TRUE]
    /\ delivery' = [delivery EXCEPT ![p] = Changed]
    /\ UNCHANGED handshake
    /\ UNCHANGED << config, used, ipInstances, pc, ips, cands, todo, calls, result >>

\* a deleting pod without finalizer leaves the API server
RemovePod(p) ==
    /\ pod[p].exists /\ pod[p].deleting /\ ~ pod[p].finalizer
    /\ pod' = [pod EXCEPT ![p] = NoPod]
    /\ delivery' = [delivery EXCEPT ![p] = Changed]
    /\ UNCHANGED handshake
    /\ UNCHANGED << config, used, ipInstances, pc, ips, cands, todo, calls, result >>

\* the stateful workload creates the pod of this identity again
CreatePod(p) ==
    /\ ~ pod[p].exists /\ podSpec[p].stateful
    /\ pod' = [pod EXCEPT ![p] = FreshPod]
    /\ delivery' = [delivery EXCEPT ![p] = Changed]
    /\ UNCHANGED handshake
    /\ UNCHANGED << config, used, ipInstances, pc, ips, cands, todo, calls, result >>

Next ==
    \E p \in Pods :
       \/ Reconcile(p)
       \/ Reserve(p)
       \/ RemoveFinalizer(p)
       \/ Decouple(p)
       \/ AddFinalizer(p)
       \/ ListAllocated(p)
       \/ Recycle(p)
       \/ ListIPs(p)
       \/ Allocate(p)
       \/ Couple(p)
       \/ AllocateRelease(p)
       \/ Assign(p)
       \/ ReCouple(p)
       \/ AssignRelease(p)
       \/ Terminate(p)
       \/ MarkDeleting(p)
       \/ RemovePod(p)
       \/ CreatePod(p)

Spec == Init /\ [][Next]_vars


\* ---------------------------------------------------------- network selection
\* the explicit network references, the type hints and the node names tried
NetworkRefs == {"", NetworkName, "net2"}

TypeHints == {"", Underlay, Overlay, GlobalBGP, "Bogus"}

NodeNames == {"node1", "node2"}

\* the bindings tried: net1 on the overlay fabric and on node1; two networks on
\* node1 only; net1 for global BGP only; nothing bound anywhere
Bindings ==
    { InitNetworks,
      [ n \in {"node1"} |-> << "net2", NetworkName >> ],
      [ n \in {GlobalBGPNodeName} |-> << NetworkName >> ],
      [ n \in {OverlayNodeName, "node1"} |-> << >> ] }

\* p1 has just been scheduled on either node and declares any network intent
InitSelect ==
    /\ dualStack = FALSE
    /\ defaultIPRetain = TRUE
    /\ networks \in Bindings
    /\ listFails \in {{}, {"node1"}, {OverlayNodeName}, {GlobalBGPNodeName}}
    /\ \E st \in BOOLEAN, na \in NetworkRefs, nl \in NetworkRefs,
          ta \in TypeHints, tl \in {"", Overlay, "Bogus"}, node \in NodeNames :
          podSpec = [p \in Pods |->
                       IF p = "p1"
                       THEN [PodSpecOf(st, << >>, "", IPv4, ta) EXCEPT
                               !.networkAnn = na, !.networkLabel = nl,
                               !.typeLabel = tl, !.nodeName = node]
                       ELSE PodSpecOf(FALSE, << >>, "", IPv4, Overlay)]
    /\ pod = [p \in Pods |-> IF p = "p1" THEN FreshPod ELSE NoPod]
    /\ InitEvents

\* the events of a pod that stays as it was scheduled
NextSelect ==
    \E p \in Pods :
       \/ Reconcile(p)
       \/ AddFinalizer(p)
       \/ ListIPs(p)
       \/ Allocate(p)
       \/ Couple(p)
       \/ AllocateRelease(p)

SpecSelect == InitSelect /\ [][NextSelect]_vars


\* ------------------------------------------------------- re-delivered events
\* the events of p1, each told from its re-delivery; p2 does not exist
NextRedelivery ==
    \E p \in {"p1"} :
       \/ Redelivery(p)
       \/ Reserve(p)
       \/ RemoveFinalizer(p)
       \/ Decouple(p)
       \/ AddFinalizer(p)
       \/ ListAllocated(p)
       \/ Recycle(p)
       \/ ListIPs(p)
       \/ Allocate(p)
       \/ Couple(p)
       \/ AllocateRelease(p)
       \/ Assign(p)
       \/ ReCouple(p)
       \/ AssignRelease(p)
       \/ Terminate(p)
       \/ MarkDeleting(p)
       \/ RemovePod(p)
       \/ CreatePod(p)

SpecRedelivery == Init /\ [][NextRedelivery]_vars

\* ------------------------------------------------------------ event filter
\* a filter that admits every terminating pod, whatever owns it
EventFilterAnyTerminating(p) ==
    IF podSpec[p].hostNetwork THEN FALSE
    ELSE IF ~ pod[p].deleting
    THEN podSpec[p].nodeName # "" /\ ~ pod[p].annotationIP
    ELSE TRUE

\* the predicate of the pod watch: no host-networked pod; a pod without
\* deletion timestamp once it is scheduled and until it carries the
\* address-assigned annotation; a terminating pod of a stateful workload
EventFilter(p) ==
    IF podSpec[p].hostNetwork THEN FALSE
    ELSE IF ~ pod[p].deleting
    THEN podSpec[p].nodeName # "" /\ ~ pod[p].annotationIP
    ELSE podSpec[p].stateful

\* a create or update event of the pod passes the filter and is reconciled
Watch(p) ==
    /\ pod[p].exists
    /\ EventFilter(p)
    /\ Redelivery(p)

\* p1 is host-networked or not, scheduled or not, of a stateful workload or not
InitFilter ==
    /\ dualStack = FALSE
    /\ defaultIPRetain \in BOOLEAN
    /\ networks = InitNetworks
    /\ listFails = {}
    /\ \E st \in BOOLEAN, host \in BOOLEAN, node \in {"", "node1"} :
          podSpec = [p \in Pods |->
                       IF p = "p1"
                       THEN [PodSpecOf(st, << >>, "", IPv4, Overlay) EXCEPT
                               !.hostNetwork = host, !.nodeName = node]
                       ELSE PodSpecOf(FALSE, << >>, "", IPv4, Overlay)]
    /\ pod = [p \in Pods |-> IF p = "p1" THEN FreshPod ELSE NoPod]
    /\ InitEvents

\* the reconciler fed by the watch only
NextFilter ==
    \E p \in {"p1"} :
       \/ Watch(p)
       \/ Reserve(p)
       \/ RemoveFinalizer(p)
       \/ Decouple(p)
       \/ AddFinalizer(p)
       \/ ListAllocated(p)
       \/ Recycle(p)
       \/ ListIPs(p)
       \/ Allocate(p)
       \/ Couple(p)
       \/ AllocateRelease(p)
       \/ Assign(p)
       \/ ReCouple(p)
       \/ AssignRelease(p)
       \/ Terminate(p)
       \/ MarkDeleting(p)
       \/ RemovePod(p)
       \/ CreatePod(p)

SpecFilter == InitFilter /\ [][NextFilter]_vars


\* ------------------------------------------- concurrent stateless allocation
\* two scheduled stateless pods of net1, each of either family mode
InitAlloc ==
    /\ dualStack \in BOOLEAN
    /\ defaultIPRetain = TRUE
    /\ networks = InitNetworks
    /\ listFails = {}
    /\ podSpec \in [Pods -> { PodSpecOf(FALSE, << >>, "", fam, Overlay) :
                               fam \in {IPv4, DualStack} }]
    /\ pod = [p \in Pods |-> FreshPod]
    /\ InitEvents

NextAlloc ==
    \E p \in Pods :
       \/ Reconcile(p)
       \/ Allocate(p)
       \/ Couple(p)
       \/ AllocateRelease(p)
       \/ Decouple(p)
       \/ Terminate(p)
       \/ MarkDeleting(p)
       \/ RemovePod(p)

SpecAlloc == InitAlloc /\ [][NextAlloc]_vars


\* ------------------------------------------------- stateless pods that stay
\* two scheduled stateless pods, each of either family mode and of the overlay
\* or the global BGP class (for which no network can be selected), that are
\* never evicted, completed or deleted
InitLive ==
    /\ dualStack \in BOOLEAN
    /\ defaultIPRetain = TRUE
    /\ networks = InitNetworks
    /\ listFails = {}
    /\ podSpec \in [Pods -> { PodSpecOf(FALSE, << >>, "", fam, typ) :
                               fam \in {IPv4, DualStack},
                               typ \in {Overlay, GlobalBGP} }]
    /\ pod = [p \in Pods |-> FreshPod]
    /\ InitEvents

NextLive ==
    \E p \in Pods :
       \/ Reconcile(p)
       \/ Allocate(p)
       \/ Couple(p)
       \/ AllocateRelease(p)

\* an event that returned an error is delivered again, and an event that has
\* started runs to its return
Fairness ==
    \A p \in Pods :
       /\ WF_vars(Reconcile(p))
       /\ WF_vars(Allocate(p))
       /\ WF_vars(Couple(p))
       /\ WF_vars(AllocateRelease(p))

SpecLive == InitLive /\ [][NextLive]_vars /\ Fairness

\* --------------------------------------------------- Node Binding Handshake
\* the most IPInstance objects the daemon's client ever lists for the pod
MaxInstances == 2

retries == 11

\* this node, and the request the container runtime sends for the pod
NodeName    == "node1"
ContainerID == "sandbox1"
PodName     == "p1"
PodNs       == "ns1"

\* the specs (hardware address, network, version) of the instances tried: the
\* two the controller gives a dual-stack pod, one with another hardware
\* address, one of another network, and one with no hardware address
InstanceSpecs ==
    { << "mac1", NetworkName, IPv4 >>, << "mac1", NetworkName, IPv6 >>,
      << "mac2", NetworkName, IPv6 >>, << "mac1", "net2", IPv6 >>,
      << "", NetworkName, IPv4 >> }

\* the status the controller leaves on an instance it coupled
CoupledStatus ==
    [sandboxID |-> "", nodeName |-> "", podNamespace |-> "", podName |-> "",
     phase |-> Using, updateTimestamp |-> ""]

\* the merge patch of the handshake: phase null, the other fields set
StatusPatch ==
    [sandboxID |-> ContainerID, nodeName |-> NodeName, podNamespace |-> PodNs,
     podName |-> PodName, phase |-> "", updateTimestamp |-> "now"]

\* an IPInstance object labelled with this node, the pod's UID and the
\* interface: its name, the spec fields the handshake reads, its deletion
\* timestamp and its status
APIInstance(n, mac, network, version, deleted, status) ==
    [name |-> n, mac |-> mac, network |-> network, version |-> version,
     deleted |-> deleted, status |-> status]

InstanceNames == 1 .. MaxInstances

\* the items of a list call, in the order of their names
ListItems ==
    LET l == SeqOfSet({ o.name : o \in apiInstances })
    IN  [ k \in 1 .. Len(l) |-> CHOOSE o \in apiInstances : o.name = l[k] ]

\* a list call that returns every item, whatever its deletion timestamp
listIPInstanceOfPodByInterfaceName == ListItems

\* the items of a list call without a deletion timestamp
listAvailableIPInstanceOfPodByInterfaceName ==
    SelectSeq(ListItems, LAMBDA o : ~ o.deleted)

\* 0 stands for a mode the switch does not know
expectIPNumber(family) ==
    IF family \in {IPv4, IPv6} THEN 1
    ELSE IF family = DualStack THEN 2
    ELSE 0

\* the wire form of an instance's address
IPAddress(o) == [ip |-> o.name, mac |-> o.mac, protocol |-> o.version]

Response(code, err, expect, get, addresses) ==
    [code |-> code, err |-> err, expect |-> expect, get |-> get,
     addresses |-> addresses]

\* errorWrapper: an error body under the given status
errorWrapper(err, status) == Response(status, err, 0, 0, << >>)

HCall(op, arg, ok) == [op |-> op, arg |-> arg, ok |-> ok]

\* the handler returns after writing the response r
Respond(r) ==
    /\ responses' = Append(responses, r)
    /\ hpc' = "idle"

\* a validation loop that takes any version and any number of each
RECURSIVE ValidateFromAnyVersion(_, _, _)
ValidateFromAnyVersion(l, k, acc) ==
    IF k > Len(l) THEN acc
    ELSE LET o == l[k]
         IN  IF acc.macAddr # "" /\ acc.macAddr # o.mac
             THEN [acc EXCEPT !.err = "mac for all ip instances should be the same"]
             ELSE IF acc.networkName # "" /\ acc.networkName # o.network
             THEN [acc EXCEPT !.err = "found different networks"]
             ELSE ValidateFromAnyVersion(l, k + 1,
                    [err |-> "",
                     macAddr |-> o.mac,
                     networkName |-> o.network,
                     versions |-> acc.versions \cup {o.version},
                     returnIPAddress |-> Append(acc.returnIPAddress, IPAddress(o)),
                     affectedIPInstances |-> Append(acc.affectedIPInstances, o.name)])

\* the validation loop of handleAdd over the instances from position k on
RECURSIVE ValidateFrom(_, _, _)
ValidateFrom(l, k, acc) ==
    IF k > Len(l) THEN acc
    ELSE LET o == l[k]
         IN  IF acc.macAddr # "" /\ acc.macAddr # o.mac
             THEN [acc EXCEPT !.err = "mac for all ip instances should be the same"]
             ELSE IF o.version \notin {IPv4, IPv6}
             THEN [acc EXCEPT !.err = "unsupported ip version"]
             ELSE IF o.version \in acc.versions
             THEN [acc EXCEPT !.err = "only one address for each version"]
             ELSE IF acc.networkName # "" /\ acc.networkName # o.network
             THEN [acc EXCEPT !.err = "found different networks"]
             ELSE ValidateFrom(l, k + 1,
                    [err |-> "",
                     macAddr |-> o.mac,
                     networkName |-> o.network,
                     versions |-> acc.versions \cup {o.version},
                     returnIPAddress |-> Append(acc.returnIPAddress, IPAddress(o)),
                     affectedIPInstances |-> Append(acc.affectedIPInstances, o.name)])

\* what handleAdd works out of the observed instances before it gets the
\* network: an error, or the hardware address, network and addresses
Validated(l) ==
    LET v == ValidateFrom(l, 1,
               [err |-> "", macAddr |-> "", networkName |-> "",
                versions |-> {}, returnIPAddress |-> << >>,
                affectedIPInstances |-> << >>])
    IN  IF v.err = "" /\ v.macAddr = ""
        THEN [v EXCEPT !.err = "no available ip for pod"]
        ELSE v

\* the pods tried: marked by the webhook or not, with or without an annotation
\* that asks for two families, and rules that give one family or an unknown one
PodFamilies ==
    { PodFamily(a, TRUE, "") : a \in {"", DualStack} }
      \cup { PodFamily(a, FALSE, f) : a \in {"", DualStack}, f \in {IPv6, "Unknown"} }

\* a resolution that trusts the annotation whether the webhook marked the pod
\* or not
ResolveIPFamilyFromAnnotation(f) == ParseIPFamilyFromString(f.annotation)

\* the effective mode: the annotation as parsed when the webhook has handled
\* the pod, what the priority rules give otherwise
ResolveIPFamily(f) ==
    IF f.handledByWebhook THEN ParseIPFamilyFromString(f.annotation)
    ELSE f.byPriority

\* the modes the pod's IP family resolves to
EffectiveFamilies == { ResolveIPFamily(f) : f \in PodFamilies }

\* a new request starts at the head of its poll loop, with no call made
NewRequest(h, family) ==
    /\ handler' = h
    /\ ipFamily' = family
    /\ patchTries' = 0
    /\ attempt' = 0
    /\ ipInstanceList' = << >>
    /\ hcalls' = << >>

\* handleAdd, handleIPAMAdd up to their poll loop: read the request, fetch the
\* pod, resolve its IP-family mode (from the annotation, or from the
\* network-config priority rules when the webhook has not handled the pod)
AddRequest(h) ==
    /\ hpc = "idle"
    /\ \/ \E err \in {"failed to parse add request", "failed to get pod",
                      "failed to parse network config of pod"} :
            /\ NewRequest(h, "")
            /\ podFamily' = NoPodFamily
            /\ responses' = << errorWrapper(err, 400) >>
            /\ hpc' = "idle"
       \/ \E f \in PodFamilies :
                /\ NewRequest(h, ResolveIPFamily(f))
                /\ podFamily' = f
                /\ IF h = "handleIPAMAdd" /\ expectIPNumber(ResolveIPFamily(f)) = 0
                   THEN /\ responses' = << errorWrapper("invalid ip family", 400) >>
                        /\ hpc' = "idle"
                   ELSE /\ responses' = << >>
                        /\ hpc' = "poll"
    /\ UNCHANGED << reconciler, apiInstances, nic >>

\* a poll loop that breaks as soon as enough instances are seen
PollBreakAtLeast ==
    /\ hpc = "poll"
    /\ attempt < retries
    /\ \/ /\ Respond(errorWrapper("failed to list ip instances", 400))
          /\ ipInstanceList' = << >>
          /\ attempt' = 0
       \/ LET l == listAvailableIPInstanceOfPodByInterfaceName
              i == attempt
          IN  /\ ipInstanceList' = l
              /\ IF expectIPNumber(ipFamily) = 0
                 THEN /\ Respond(errorWrapper("invalid ip family", 400))
                      /\ attempt' = 0
                 ELSE IF Len(l) >= expectIPNumber(ipFamily)
                 THEN /\ hpc' = IF handler = "handleAdd" THEN "patchCalico"
                                ELSE "patchStatus"
                      /\ attempt' = 0
                      /\ UNCHANGED responses
                 ELSE IF i = retries - 1
                 THEN /\ Respond(Response(400,
                             "failed to wait for pod to be coupled with ip",
                             expectIPNumber(ipFamily), Len(l), << >>))
                      /\ attempt' = 0
                 ELSE /\ attempt' = i + 1
                      /\ UNCHANGED << hpc, responses >>
    /\ UNCHANGED << reconciler, apiInstances, nic, handler, ipFamily, patchTries, podFamily, hcalls >>

\* a poll loop that gives up one attempt later
PollOneMoreAttempt ==
    /\ hpc = "poll"
    /\ attempt < retries + 1
    /\ \/ /\ Respond(errorWrapper("failed to list ip instances", 400))
          /\ ipInstanceList' = << >>
          /\ attempt' = 0
       \/ LET l == listAvailableIPInstanceOfPodByInterfaceName
              i == attempt
          IN  /\ ipInstanceList' = l
              /\ IF expectIPNumber(ipFamily) = 0
                 THEN /\ Respond(errorWrapper("invalid ip family", 400))
                      /\ attempt' = 0
                 ELSE IF Len(l) = expectIPNumber(ipFamily)
                 THEN /\ hpc' = IF handler = "handleAdd" THEN "patchCalico"
                                ELSE "patchStatus"
                      /\ attempt' = 0
                      /\ UNCHANGED responses
                 ELSE IF i = retries
                 THEN /\ Respond(Response(400,
                             "failed to wait for pod to be coupled with ip",
                             expectIPNumber(ipFamily), Len(l), << >>))
                      /\ attempt' = 0
                 ELSE /\ attempt' = i + 1
                      /\ UNCHANGED << hpc, responses >>
    /\ UNCHANGED << reconciler, apiInstances, nic, handler, ipFamily, patchTries, podFamily, hcalls >>

\* one attempt of the poll loop: list, compare the count, break or go on
Poll ==
    /\ hpc = "poll"
    /\ attempt < retries
    /\ \/ /\ Respond(errorWrapper("failed to list ip instances", 400))
          /\ ipInstanceList' = << >>
          /\ attempt' = 0
       \/ LET l == listAvailableIPInstanceOfPodByInterfaceName
              i == attempt
          IN  /\ ipInstanceList' = l
              /\ IF expectIPNumber(ipFamily) = 0
                 THEN /\ Respond(errorWrapper("invalid ip family", 400))
                      /\ attempt' = 0
                 ELSE IF Len(l) = expectIPNumber(ipFamily)
                 THEN /\ hpc' = IF handler = "handleAdd" THEN "patchCalico"
                                ELSE "patchStatus"
                      /\ attempt' = 0
                      /\ UNCHANGED responses
                 ELSE IF i = retries - 1
                 THEN /\ Respond(Response(400,
                             "failed to wait for pod to be coupled with ip",
                             expectIPNumber(ipFamily), Len(l), << >>))
                      /\ attempt' = 0
                 ELSE /\ attempt' = i + 1
                      /\ UNCHANGED << hpc, responses >>
    /\ UNCHANGED << reconciler, apiInstances, nic, handler, ipFamily, patchTries, podFamily, hcalls >>

\* handleAdd: the calico pod-IPs annotation, patched when the daemon is
\* configured to; an error of the patch is written as a response and the
\* handler goes on
PatchCalicoPodIPs ==
    /\ hpc = "patchCalico"
    /\ hpc' = "validate"
    /\ \/ UNCHANGED << hcalls, responses >>
       \/ \E ok \in BOOLEAN :
            /\ hcalls' = Append(hcalls, HCall("PatchCalicoPodIPs", 0, ok))
            /\ responses' =
                 IF ok THEN responses
                 ELSE Append(responses,
                        errorWrapper("failed to patch calico pod ips annotation", 400))
    /\ UNCHANGED << reconciler, apiInstances, nic, handler, ipFamily, patchTries, podFamily,
                    attempt, ipInstanceList >>

\* handleAdd: one hardware address, one network, one address per version
Validate ==
    /\ hpc = "validate"
    /\ IF Validated(ipInstanceList).err # ""
       THEN Respond(errorWrapper(Validated(ipInstanceList).err, 500))
       ELSE hpc' = "getNetwork" /\ UNCHANGED responses
    /\ UNCHANGED << reconciler, apiInstances, nic, handler, ipFamily, patchTries, podFamily,
                    attempt, ipInstanceList, hcalls >>

\* handleAdd: fetch the network the instances name
GetNetwork ==
    /\ hpc = "getNetwork"
    /\ \E ok \in BOOLEAN :
         /\ hcalls' = Append(hcalls,
                        HCall("GetNetwork", Validated(ipInstanceList).networkName, ok))
         /\ IF ok THEN hpc' = "configureNic" /\ UNCHANGED responses
            ELSE Respond(errorWrapper("cannot get network", 500))
    /\ UNCHANGED << reconciler, apiInstances, nic, handler, ipFamily, patchTries, podFamily,
                    attempt, ipInstanceList >>

\* handleAdd that goes on to the status patch whatever the interface
\* configuration says
ConfigureNicBestEffort ==
    /\ hpc = "configureNic"
    /\ \E ok \in BOOLEAN :
         /\ hcalls' = Append(hcalls,
                        HCall("configureNic", Validated(ipInstanceList).macAddr, ok))
         /\ hpc' = "patchStatus"
         /\ nic' = IF ok THEN "configured" ELSE nic
         /\ UNCHANGED responses
    /\ UNCHANGED << reconciler, apiInstances, handler, ipFamily, patchTries, podFamily,
                    attempt, ipInstanceList >>

\* handleAdd: the interface is set up with the hardware address found
ConfigureNic ==
    /\ hpc = "configureNic"
    /\ \E ok \in BOOLEAN :
         /\ hcalls' = Append(hcalls,
                        HCall("configureNic", Validated(ipInstanceList).macAddr, ok))
         /\ IF ok
            THEN /\ hpc' = "patchStatus"
                 /\ nic' = "configured"
                 /\ UNCHANGED responses
            ELSE /\ Respond(errorWrapper("failed to configure nic", 500))
                 /\ UNCHANGED nic
    /\ UNCHANGED << reconciler, apiInstances, handler, ipFamily, patchTries, podFamily, attempt,
                    ipInstanceList >>

\* the names of the instances the request has patched so far
Patched ==
    { hcalls[k].arg : k \in { j \in 1 .. Len(hcalls) :
                                hcalls[j].op = "PatchStatus" /\ hcalls[j].ok } }

\* the response of a request that patched every instance
OKResponse ==
    Response(200, "", 0, 0,
             [ k \in 1 .. Len(ipInstanceList) |-> IPAddress(ipInstanceList[k]) ])

\* retry.DefaultRetry.Steps: the attempts RetryOnConflict makes
DefaultRetrySteps == 5

\* what one attempt of the status patch of an instance returns
PatchResults == {"ok", "conflict", "error"}

\* RetryOnConflict after an attempt returned res, tries conflicts before it:
\* "retry" on a conflict while attempts are left, else done with ok or not
RetryOnConflict(res, tries) ==
    IF res = "ok" THEN "ok"
    ELSE IF res = "conflict" /\ tries + 1 < DefaultRetrySteps THEN "retry"
    ELSE "failed"

\* a status patch that writes the network of the spec as well
PatchStatusAndNetwork ==
    /\ hpc = "patchStatus"
    /\ IF Cardinality(Patched) = Len(ipInstanceList)
       THEN /\ Respond(OKResponse)
            /\ UNCHANGED << apiInstances, hcalls, patchTries >>
       ELSE LET ip == ipInstanceList[Cardinality(Patched) + 1]
            IN  \E res \in PatchResults :
                  LET r == RetryOnConflict(res, patchTries)
                  IN  IF r = "retry"
                      THEN /\ patchTries' = patchTries + 1
                           /\ UNCHANGED << apiInstances, hcalls, hpc, responses >>
                      ELSE /\ patchTries' = 0
                           /\ hcalls' = Append(hcalls, HCall("PatchStatus", ip.name, r = "ok"))
                           /\ IF r = "ok"
                              THEN /\ apiInstances' =
                                        { IF o.name = ip.name
                                          THEN [o EXCEPT !.status = StatusPatch,
                                                         !.network = NetworkName]
                                          ELSE o : o \in apiInstances }
                                   /\ UNCHANGED << hpc, responses >>
                              ELSE /\ Respond(errorWrapper("failed to update IPInstance crd", 500))
                                   /\ UNCHANGED apiInstances
    /\ UNCHANGED << reconciler, nic, handler, ipFamily, podFamily, attempt,
                    ipInstanceList >>

\* a status patch that goes on to the next instance when one has failed
PatchStatusSkipFailed ==
    /\ hpc = "patchStatus"
    /\ LET done == { hcalls[k].arg : k \in { j \in 1 .. Len(hcalls) :
                                               hcalls[j].op = "PatchStatus" } }
       IN  IF Cardinality(done) = Len(ipInstanceList)
           THEN /\ Respond(OKResponse)
                /\ UNCHANGED << apiInstances, hcalls, patchTries >>
           ELSE LET ip == ipInstanceList[Cardinality(done) + 1]
                IN  \E res \in PatchResults :
                      LET r == RetryOnConflict(res, patchTries)
                      IN  IF r = "retry"
                          THEN /\ patchTries' = patchTries + 1
                               /\ UNCHANGED << apiInstances, hcalls, hpc, responses >>
                          ELSE /\ patchTries' = 0
                               /\ hcalls' = Append(hcalls,
                                              HCall("PatchStatus", ip.name, r = "ok"))
                               /\ apiInstances' =
                                    IF r = "ok"
                                    THEN { IF o.name = ip.name
                                           THEN [o EXCEPT !.status = StatusPatch]
                                           ELSE o : o \in apiInstances }
                                    ELSE apiInstances
                               /\ UNCHANGED << hpc, responses >>
    /\ UNCHANGED << reconciler, nic, handler, ipFamily, podFamily, attempt,
                    ipInstanceList >>

\* both add handlers: one attempt of the status patch of the next affected
\* instance, its conflicts retried; after the last instance the addresses are
\* returned
PatchStatus ==
    /\ hpc = "patchStatus"
    /\ IF Cardinality(Patched) = Len(ipInstanceList)
       THEN /\ Respond(OKResponse)
            /\ UNCHANGED << apiInstances, hcalls, patchTries >>
       ELSE LET ip == ipInstanceList[Cardinality(Patched) + 1]
            IN  \E res \in PatchResults :
                  LET r == RetryOnConflict(res, patchTries)
                  IN  IF r = "retry"
                      THEN /\ patchTries' = patchTries + 1
                           /\ UNCHANGED << apiInstances, hcalls, hpc, responses >>
                      ELSE /\ patchTries' = 0
                           /\ hcalls' = Append(hcalls, HCall("PatchStatus", ip.name, r = "ok"))
                           /\ IF r = "ok"
                              THEN /\ apiInstances' =
                                        { IF o.name = ip.name
                                          THEN [o EXCEPT !.status = StatusPatch]
                                          ELSE o : o \in apiInstances }
                                   /\ UNCHANGED << hpc, responses >>
                              ELSE /\ Respond(errorWrapper("failed to update IPInstance crd", 500))
                                   /\ UNCHANGED apiInstances
    /\ UNCHANGED << reconciler, nic, handler, ipFamily, podFamily, attempt,
                    ipInstanceList >>

\* the results the interface teardown may report: tearing down a namespace
\* that has no interface (any more) is no error
deleteNic == { ok \in BOOLEAN : nic = "absent" => ok }

\* handleDel that reports success whatever the teardown says
handleDelAlwaysNoContent ==
    /\ hpc = "idle"
    /\ hpc' = "idle"
    /\ handler' = "handleDel"
    /\ ipFamily' = ""
    /\ patchTries' = 0
    /\ podFamily' = NoPodFamily
    /\ attempt' = 0
    /\ ipInstanceList' = << >>
    /\ \/ /\ responses' = << errorWrapper("failed to parse del request", 400) >>
          /\ hcalls' = << >>
          /\ UNCHANGED nic
       \/ \E ok \in deleteNic :
            /\ hcalls' = << HCall("deleteNic", nic, ok) >>
            /\ nic' = IF ok THEN "absent" ELSE nic
            /\ responses' = << Response(204, "", 0, 0, << >>) >>
    /\ UNCHANGED << reconciler, apiInstances >>

\* handleDel: read the request, tear the interface of the namespace down,
\* answer with no content, or with the error of the teardown
handleDel ==
    /\ hpc = "idle"
    /\ hpc' = "idle"
    /\ handler' = "handleDel"
    /\ ipFamily' = ""
    /\ patchTries' = 0
    /\ podFamily' = NoPodFamily
    /\ attempt' = 0
    /\ ipInstanceList' = << >>
    /\ \/ /\ responses' = << errorWrapper("failed to parse del request", 400) >>
          /\ hcalls' = << >>
          /\ UNCHANGED nic
       \/ \E ok \in deleteNic :
            /\ hcalls' = << HCall("deleteNic", nic, ok) >>
            /\ nic' = IF ok THEN "absent" ELSE nic
            /\ responses' =
                 << IF ok THEN Response(204, "", 0, 0, << >>)
                    ELSE errorWrapper("failed to del container nic", 500) >>
    /\ UNCHANGED << reconciler, apiInstances >>

\* handleIPAMDel: acknowledge, nothing else
handleIPAMDel ==
    /\ hpc = "idle"
    /\ NewRequest("handleIPAMDel", "")
    /\ podFamily' = NoPodFamily
    /\ hpc' = "idle"
    /\ responses' = << Response(204, "", 0, 0, << >>) >>
    /\ UNCHANGED << reconciler, apiInstances, nic >>

\* the controller's coupling of one more address of the pod becomes visible to
\* the daemon's client. The daemon reads the instances in its poll loop only,
\* so what the controller does at any other time shows there. The objects are
\* named in the order they appear (the list call returns them by name): any
\* two instances are listed in either order by appearing in that order
InstanceCoupledFrom(specs) ==
    /\ hpc = "poll"
    /\ \E n \in InstanceNames, sp \in specs :
         /\ n = Cardinality(apiInstances) + 1
         /\ apiInstances' = apiInstances \cup
              { APIInstance(n, sp[1], sp[2], sp[3], FALSE, CoupledStatus) }
    /\ UNCHANGED << reconciler, nic, hpc, handler, ipFamily, patchTries, podFamily, attempt,
                    ipInstanceList, hcalls, responses >>

InstanceCoupled == InstanceCoupledFrom(InstanceSpecs)

\* an instance of the pod gets its deletion timestamp while the request stands
\* at one of the given positions
InstanceDeletedAt(positions) ==
    /\ hpc \in positions
    /\ \E o \in apiInstances :
         /\ ~ o.deleted
         /\ apiInstances' = (apiInstances \ {o}) \cup {[o EXCEPT !.deleted = TRUE]}
    /\ UNCHANGED << reconciler, nic, hpc, handler, ipFamily, patchTries, podFamily, attempt,
                    ipInstanceList, hcalls, responses >>

\* an instance of the pod gets its deletion timestamp before a list attempt
InstanceDeleted == InstanceDeletedAt({"poll"})

\* the reconciler is at rest while the daemon serves the requests of pod p1
InitHandshake ==
    /\ dualStack = TRUE
    /\ defaultIPRetain = TRUE
    /\ networks = InitNetworks
    /\ listFails = {}
    /\ podSpec = [p \in Pods |-> PodSpecOf(FALSE, << >>, "", IPv4, Overlay)]
    /\ pod = [p \in Pods |-> IF p = PodName THEN FreshPod ELSE NoPod]
    /\ InitEvents

NextHandshake ==
    \/ AddRequest("handleAdd")
    \/ AddRequest("handleIPAMAdd")
    \/ Poll
    \/ PatchCalicoPodIPs
    \/ Validate
    \/ GetNetwork
    \/ ConfigureNic
    \/ PatchStatus
    \/ handleDel
    \/ handleIPAMDel
    \/ InstanceCoupled
    \/ InstanceDeleted

SpecHandshake == InitHandshake /\ [][NextHandshake]_vars

\* the specs tried for the versions of the instances: one of each version the
\* handshake knows and one of no version, all alike otherwise
VersionSpecs ==
    { << "mac1", NetworkName, IPv4 >>, << "mac1", NetworkName, IPv6 >>,
      << "mac1", NetworkName, "" >> }

\* handleAdd served while instances of any of these versions appear
NextVersions ==
    \/ AddRequest("handleAdd")
    \/ Poll
    \/ PatchCalicoPodIPs
    \/ Validate
    \/ GetNetwork
    \/ ConfigureNic
    \/ PatchStatus
    \/ InstanceCoupledFrom(VersionSpecs)
    \/ InstanceDeleted

SpecVersions == InitHandshake /\ [][NextVersions]_vars

\* the positions of an add request
RequestPositions ==
    {"poll", "patchCalico", "validate", "getNetwork", "configureNic", "patchStatus"}

\* the add handlers served while instances get their deletion timestamp at
\* any time of the request, after its last list attempt as well
NextDeletion ==
    \/ AddRequest("handleAdd")
    \/ AddRequest("handleIPAMAdd")
    \/ Poll
    \/ PatchCalicoPodIPs
    \/ Validate
    \/ GetNetwork
    \/ ConfigureNic
    \/ PatchStatus
    \/ InstanceCoupledFrom(VersionSpecs)
    \/ InstanceDeletedAt(RequestPositions)

SpecDeletion == InitHandshake /\ [][NextDeletion]_vars

\* ------------------------------------------------------------- properties
Ops(p) == { calls[p][k].op : k \in 1 .. Len(calls[p]) }

UsingOf(p) == { i \in InstancesOf(p) : i.phase = Using }

\* the addresses an allocate event of p holds, in flight or coupled
HeldBy(p) ==
    { i.address : i \in UsingOf(p) }
      \cup (IF pc[p] \in {"couple", "allocateRelease"}
            THEN Range(squashIPSliceToIPs(ips[p])) ELSE {})

\* C1: allocate events of different pods never hold the same address: what
\* the engine returned to one event, and what is coupled to one pod, is
\* disjoint from what any other pod's event got or has coupled.
C1_NoDoubleAllocation ==
    \A p \in Pods, q \in Pods : p # q => HeldBy(p) \cap HeldBy(q) = {}

\* both pods hold a coupled address of the same subnet at once
C1_Witness ==
    \E i \in UsingOf("p1"), j \in UsingOf("p2") :
        SubnetOf(i.address) = SubnetOf(j.address)

\* C2: a pod is bound by at most one non-terminal (Using) IPInstance per IP
\* version, whatever events, failed or re-delivered, it went through.
C2_OneBindingPerVersion ==
    \A p \in Pods, v \in {IPv4, IPv6} :
        Cardinality({ i \in UsingOf(p) : VersionOf(i.address) = v }) <= 1

\* a recreated pod has just been bound again to the address of its identity
C2_Witness ==
    \E p \in Pods :
        /\ UsingOf(p) # {} /\ pod[p].annotationIP
        /\ pc[p] = "idle" /\ result[p] = Nil /\ "ReCouple" \in Ops(p)


\* no Reconcile event is in flight
Quiescent == \A p \in Pods : pc[p] = "idle"

HeldAddrs == { i.address : i \in ipInstances }

\* C3 (the half the claim singles out): whenever no event is in flight, every
\* address an IPInstance holds, a retained one in particular, is marked used
\* in the Allocation Engine.
C3_HeldIsUsed == Quiescent => HeldAddrs \subseteq used

\* C3 (the other half): whenever no event is in flight, every address marked
\* used in the Allocation Engine is held by some IPInstance.
C3_UsedIsHeld == Quiescent => used \subseteq HeldAddrs


\* the creation event of a live pod that carries the address-assigned annotation
FenceCase(p) ==
    /\ pod[p].exists /\ ~ pod[p].deleting /\ ~ pod[p].terminated
    /\ pod[p].annotationIP

\* C4: an event delivered for a live pod that already carries the
\* address-assigned annotation returns success at once: it makes no engine
\* call, no store call and no finalizer patch, and leaves engine, store and
\* pod as they were.
C4_Fence ==
    [][ \A p \in Pods :
          (Reconcile(p) /\ FenceCase(p)) =>
             /\ pc'[p] = "idle" /\ result'[p] = Nil /\ calls'[p] = << >>
             /\ used' = used /\ ipInstances' = ipInstances /\ pod' = pod ]_vars

\* an event was fenced off for a pod that holds its coupled address
C4_Witness ==
    \E p \in Pods :
        /\ FenceCase(p) /\ UsingOf(p) # {}
        /\ pc[p] = "idle" /\ calls[p] = << >> /\ result[p] = Nil

Returned(p) == pc[p] = "idle"

LastCall(p) == calls[p][Len(calls[p])]

\* the event of p ran allocate and its Couple step failed for n addresses
CoupleFailed(p, n) ==
    \E k \in 2 .. Len(calls[p]) :
        /\ calls[p][k].op = "Couple" /\ ~ calls[p][k].ok
        /\ calls[p][k - 1].op = "Allocate" /\ calls[p][k - 1].ok
        /\ Len(calls[p][k - 1].ips) = n

AllocatedIn(p) ==
    LET k == CHOOSE j \in 1 .. Len(calls[p]) : calls[p][j].op = "Allocate"
    IN  calls[p][k].ips

\* the event returned the coupling error after one Release of all it allocated
ReleasedAll(p) ==
    /\ LastCall(p).op = "Release"
    /\ LastCall(p).ips = AllocatedIn(p)
    /\ Cardinality({ k \in 1 .. Len(calls[p]) : calls[p][k].op = "Release" }) = 1
    /\ result[p] = "unable to couple ip with pod"

\* C5 as stated: in dual-stack mode, when Couple failed after Allocate
\* returned two addresses, the event returns only after a Release of both
\* (with their two subnets), and neither address stays marked used.
C5_ReleasedAndFree ==
    \A p \in Pods :
        (dualStack /\ CoupleFailed(p, 2) /\ Returned(p)) =>
           /\ ReleasedAll(p)
           /\ Range(squashIPSliceToIPs(AllocatedIn(p))) \cap used = {}

\* C5 as amended: the Release of both addresses (with their two subnets) is
\* called before the error returns; the addresses are free again when that
\* Release call succeeded.
C5_ReleasedBoth ==
    \A p \in Pods :
        (dualStack /\ CoupleFailed(p, 2) /\ Returned(p)) =>
           /\ ReleasedAll(p)
           /\ squashIPSliceToSubnets(LastCall(p).ips) = << "subnet4", "subnet6" >>
           /\ LastCall(p).ok =>
                Range(squashIPSliceToIPs(AllocatedIn(p))) \cap used = {}

\* a dual-stack event returned after its Couple failed and its Release succeeded
C5_Witness ==
    \E p \in Pods :
        /\ dualStack /\ CoupleFailed(p, 2) /\ Returned(p)
        /\ LastCall(p).op = "Release" /\ LastCall(p).ok

\* C6: in single-stack mode, when Couple failed after Allocate succeeded, the
\* event returns the error only after one Release of exactly the allocated
\* (network, subnet, address); when Allocate itself failed the event ends
\* there, with no Release and no Couple call.
C6_SingleStackCompensation ==
    \A p \in Pods :
        ~ dualStack =>
          /\ CoupleFailed(p, 1) =>
               \/ pc[p] = "allocateRelease" /\ LastCall(p).op = "Couple"
               \/ Returned(p) /\ ReleasedAll(p) /\ Len(LastCall(p).ips) = 1
          /\ \A k \in 1 .. Len(calls[p]) :
               (calls[p][k].op = "Allocate" /\ ~ calls[p][k].ok) =>
                  /\ k = Len(calls[p]) /\ Returned(p)
                  /\ result[p] = "unable to allocate ip"
                  /\ Ops(p) \cap {"Release", "Couple"} = {}

\* a single-stack event returned the coupling error after its release
C6_Witness ==
    \E p \in Pods :
        /\ ~ dualStack /\ CoupleFailed(p, 1) /\ Returned(p)
        /\ LastCall(p).op = "Release"


\* the retention truth table: cluster default, pod override, decision
RetentionTable ==
    { << TRUE,  "",      "reuse" >>,
      << TRUE,  "true",  "reuse" >>,
      << TRUE,  "false", "reallocate" >>,
      << FALSE, "",      "reallocate" >>,
      << FALSE, "false", "reallocate" >>,
      << FALSE, "true",  "reuse" >> }

Decision(p) ==
    CHOOSE d \in {"reuse", "reallocate"} :
        << defaultIPRetain, podSpec[p].ipRetain, d >> \in RetentionTable

\* C7: for a stateful pod without IP-pool annotation the sub-path taken is the
\* one of the retention truth table: the pod override decides when present,
\* the cluster default otherwise (retain: reuse path, do-not-retain:
\* reallocate path), and the calls of the other path are never made.
C7_RetentionTable ==
    /\ [][ \A p \in Pods :
             (AddFinalizer(p) /\ ~ preAssign(p) /\ pc'[p] # "idle") =>
                pc'[p] = IF Decision(p) = "reuse" THEN "listIPs"
                         ELSE "listAllocated" ]_vars
    /\ [] \A p \in Pods :
            (podSpec[p].stateful /\ ~ preAssign(p)) =>
               /\ Decision(p) = "reuse" =>
                    /\ pc[p] \notin {"listAllocated", "recycle"}
                    /\ Ops(p) \cap {"ListAllocatedIPInstancesOfPod", "IPRecycle"} = {}
               /\ Decision(p) = "reallocate" =>
                    /\ pc[p] \notin {"listIPs", "assign", "recouple", "assignRelease"}
                    /\ Ops(p) \cap {"ListIPsOfPod", "Assign", "ReCouple"} = {}

\* cluster default do-not-retain, pod override retain: the reuse path is taken
C7_Witness ==
    \E p \in Pods :
        /\ ~ defaultIPRetain /\ podSpec[p].ipRetain = "true"
        /\ podSpec[p].stateful /\ ~ preAssign(p)
        /\ pc[p] = "listIPs"

DeletingStateful(p) ==
    pod[p].exists /\ pod[p].deleting /\ podSpec[p].stateful

ReserveOK == Call("IPReserve", << >>, FALSE, TRUE)

\* C8: for a deleting pod of a stateful workload Reconcile calls reserve
\* first and patches the finalizer away only after reserve succeeded; it makes
\* no DeCouple, IPRecycle, Release or Allocate call; when reserve fails the
\* event returns the error and the finalizer stays.
C8_ReserveThenFinalizer ==
    /\ [][ \A p \in Pods :
             /\ (Reconcile(p) /\ DeletingStateful(p)) => pc'[p] = "reserve"
             /\ (pod[p].finalizer /\ ~ pod'[p].finalizer) =>
                   calls[p] = << ReserveOK >>
             /\ (Reserve(p) /\ ~ calls'[p][Len(calls'[p])].ok) =>
                   /\ pc'[p] = "idle" /\ result'[p] = "unable to reserve pod"
                   /\ pod' = pod /\ ipInstances' = ipInstances ]_vars
    /\ [] \A p \in Pods :
            (pc[p] \in {"reserve", "removeFinalizer"} \/ "IPReserve" \in Ops(p)) =>
               /\ Ops(p) \subseteq {"IPReserve", "PatchRemoveFinalizer"}
               /\ pc[p] = "reserve" => calls[p] = << >>
               /\ pc[p] = "removeFinalizer" => calls[p] = << ReserveOK >>
               /\ "PatchRemoveFinalizer" \in Ops(p) =>
                     Len(calls[p]) = 2 /\ calls[p][1] = ReserveOK
               /\ (calls[p] # << >> /\ ~ calls[p][1].ok) =>
                     /\ Len(calls[p]) = 1 /\ Returned(p)
                     /\ result[p] = "unable to reserve pod"

\* a deleted stateful pod had its address reserved, then its finalizer removed
C8_Witness ==
    \E p \in Pods :
        /\ Returned(p) /\ result[p] = Nil
        /\ calls[p] = << ReserveOK, Call("PatchRemoveFinalizer", << >>, FALSE, TRUE) >>
        /\ \E i \in InstancesOf(p) : i.phase = Reserved

PriorAddrs(p) == { i.address : i \in InstancesOf(p) }

\* C9: in the default (retain) path without IP-pool, once the prior addresses
\* of the identity are looked up, Allocate is called if and only if there is
\* none; otherwise the next call is Assign with forced = true for exactly the
\* prior addresses, a successful Assign is followed by ReCouple of the same
\* addresses, and the event marks no address used beyond the prior ones.
C9_ReuseOrFirstCreation ==
    /\ [][ \A p \in Pods :
             /\ (ListIPs(p) /\ calls'[p][Len(calls'[p])].ok) =>
                   /\ pc'[p] = "allocate" <=> PriorAddrs(p) = {}
                   /\ PriorAddrs(p) # {} =>
                        pc'[p] = "assign" /\ Range(cands'[p]) = PriorAddrs(p)
             /\ (Assign(p) /\ "ListIPsOfPod" \in Ops(p)
                   /\ calls'[p][Len(calls'[p])].ok) =>
                   /\ calls'[p][Len(calls'[p])].forced
                   /\ Range(squashIPSliceToIPs(calls'[p][Len(calls'[p])].ips))
                        = PriorAddrs(p)
                   /\ used' \ used \subseteq PriorAddrs(p)
                   /\ pc'[p] = "recouple" ]_vars
    /\ [] \A p \in Pods :
            "ListIPsOfPod" \in Ops(p) =>
               /\ ("Allocate" \in Ops(p) \/ pc[p] = "allocate") =>
                     cands[p] = << >> /\ Ops(p) \cap {"Assign", "ReCouple"} = {}
               /\ cands[p] # << >> =>
                     /\ "Allocate" \notin Ops(p)
                     /\ pc[p] \notin {"allocate", "couple", "allocateRelease"}
               /\ \A k \in 1 .. Len(calls[p]) :
                     calls[p][k].op = "ReCouple" =>
                        /\ calls[p][k - 1].op = "Assign" /\ calls[p][k - 1].ok
                        /\ calls[p][k - 1].forced
                        /\ calls[p][k].ips = calls[p][k - 1].ips
               /\ pc[p] = "recouple" => LastCall(p).op = "Assign" /\ LastCall(p).ok

\* a recreated pod of the default path got its reserved address back
C9_Witness ==
    \E p \in Pods :
        /\ "ListIPsOfPod" \in Ops(p) /\ Returned(p) /\ result[p] = Nil
        /\ LastCall(p).op = "ReCouple" /\ LastCall(p).ok
        /\ used = PriorAddrs(p) /\ UsingOf(p) = InstancesOf(p)

\* C10: in the reallocate path every prior address of the identity is
\* recycled before Allocate is called, and it is called only if every recycle
\* call succeeded: a failed recycle call ends the event with its error, with
\* no Allocate and no Couple call.
C10_RecycleBeforeAllocate ==
    /\ [][ \A p \in Pods :
             (ListAllocated(p) /\ calls'[p][Len(calls'[p])].ok) =>
                /\ Range(squashIPSliceToIPs(todo'[p])) = PriorAddrs(p)
                /\ pc'[p] = "allocate" <=> PriorAddrs(p) = {} ]_vars
    /\ [] \A p \in Pods :
            "ListAllocatedIPInstancesOfPod" \in Ops(p) =>
               /\ pc[p] \in {"allocate", "couple", "allocateRelease"} =>
                     /\ InstancesOf(p) = {}
                     /\ todo[p] = << >>
               /\ \A k \in 1 .. Len(calls[p]) :
                     /\ calls[p][k].op \in {"Allocate", "Couple"} =>
                          \A j \in 1 .. k :
                             calls[p][j].op = "IPRecycle" => calls[p][j].ok
                     /\ (calls[p][k].op = "IPRecycle" /\ ~ calls[p][k].ok) =>
                          /\ k = Len(calls[p]) /\ Returned(p)
                          /\ result[p] = "unable to release before reallocate"

\* a recreated pod had its prior address recycled and a fresh one coupled
C10_Witness ==
    \E p \in Pods :
        /\ "IPRecycle" \in Ops(p) /\ Returned(p) /\ result[p] = Nil
        /\ LastCall(p).op = "Couple" /\ LastCall(p).ok


\* the pod is evicted or completed, not deleting, and nothing is bound to it
NothingBound(p) ==
    /\ pod[p].exists /\ pod[p].terminated /\ ~ pod[p].deleting
    /\ InstancesOf(p) = {}

\* C11: a decouple of an evicted or completed pod whose bindings an earlier
\* decouple already removed leaves the Binding Store (and the engine) as it
\* was, and returns success whenever the store call does: having nothing to
\* unbind is no error. The end state of two runs is that of one.
C11_IdempotentDecouple ==
    /\ [][ \A p \in Pods :
             (Decouple(p) /\ NothingBound(p)) =>
                /\ ipInstances' = ipInstances /\ used' = used /\ pod' = pod
                /\ Len(calls'[p]) = 1 /\ calls'[p][1].op = "DeCouple"
                /\ calls'[p][1].ok <=> result'[p] = Nil ]_vars
    /\ [][ \A p \in Pods :
             (Decouple(p) /\ result'[p] = Nil) => InstancesOf(p)' = {} ]_vars

\* the bindings of a coupled pod are gone and a further decouple is under way
C11_Witness ==
    \E p \in Pods :
        /\ NothingBound(p) /\ pod[p].annotationIP
        /\ pc[p] = "decouple" /\ calls[p] = << >>


\* the request is past its poll loop
PastPoll ==
    hpc \in {"patchCalico", "validate", "getNetwork", "configureNic", "patchStatus"}

\* the list call of this attempt does not fail
Listed == ~ (hpc' = "idle" /\ responses' # << >>
               /\ responses'[Len(responses')].err = "failed to list ip instances")

\* the spec and the deletion timestamp of an instance object
SpecOf(o) == [name |-> o.name, mac |-> o.mac, network |-> o.network,
              version |-> o.version, deleted |-> o.deleted]

\* C12: when a poll attempt lists as many non-deleted instances as the pod's
\* IP-family mode expects, the loop ends with that attempt and the handler
\* goes on with exactly the instances listed; a request is never past its
\* poll loop with a count other than the expected one.
C12_PollStopsOnExpectedCount ==
    /\ [][ (Poll /\ Listed /\ expectIPNumber(ipFamily) # 0
              /\ Len(listAvailableIPInstanceOfPodByInterfaceName)
                   = expectIPNumber(ipFamily)) =>
             /\ PastPoll'
             /\ ipInstanceList' = listAvailableIPInstanceOfPodByInterfaceName
             /\ responses' = responses ]_vars
    /\ [] (PastPoll =>
             /\ Len(ipInstanceList) = expectIPNumber(ipFamily)
             /\ expectIPNumber(ipFamily) # 0
             /\ \A k \in 1 .. Len(ipInstanceList) :
                  /\ ~ ipInstanceList[k].deleted
                  /\ \E o \in apiInstances : SpecOf(o) = SpecOf(ipInstanceList[k]))

\* a single-stack request is past its poll loop with the one instance listed
\* while an instance with a deletion timestamp is left out
C12_Witness ==
    /\ PastPoll /\ ipFamily = IPv4 /\ Len(ipInstanceList) = 1
    /\ \E o \in apiInstances : o.deleted

\* the error that names the expected and the observed count
MismatchError(expect, get) ==
    Response(400, "failed to wait for pod to be coupled with ip", expect, get, << >>)

\* C13: when the count listed differs from the expected one in every attempt,
\* the handler lists at most 11 times (the loop index stays below 11), the
\* last attempt ends the request with the error that names the expected and
\* the observed count, and the request has made no interface configuration
\* and no status patch.
C13_BoundedPollThenMismatchError ==
    /\ [][ (Poll /\ Listed /\ expectIPNumber(ipFamily) # 0
              /\ Len(listAvailableIPInstanceOfPodByInterfaceName)
                   # expectIPNumber(ipFamily)) =>
             IF attempt = retries - 1
             THEN /\ hpc' = "idle"
                  /\ responses' = << MismatchError(expectIPNumber(ipFamily),
                         Len(listAvailableIPInstanceOfPodByInterfaceName)) >>
                  /\ hcalls' = << >> /\ apiInstances' = apiInstances /\ nic' = nic
             ELSE /\ hpc' = "poll" /\ attempt' = attempt + 1
                  /\ responses' = << >> ]_vars
    /\ [] /\ attempt \in 0 .. retries - 1
          /\ hpc = "poll" => hcalls = << >> /\ responses = << >>
          /\ \A k \in 1 .. Len(responses) :
               responses[k].err = "failed to wait for pod to be coupled with ip" =>
                  /\ hpc = "idle" /\ Len(responses) = 1 /\ hcalls = << >>
                  /\ responses[k].expect # responses[k].get
                  /\ responses[k].expect = expectIPNumber(ipFamily)

\* a dual-stack request ended after seeing one instance in its last attempt
C13_Witness ==
    /\ hpc = "idle" /\ handler = "handleAdd"
    /\ responses = << MismatchError(2, 1) >>

\* a step of one of the four handlers
HandlerStep ==
    \/ AddRequest("handleAdd") \/ AddRequest("handleIPAMAdd") \/ Poll
    \/ PatchCalicoPodIPs \/ Validate \/ GetNetwork \/ ConfigureNic
    \/ PatchStatus \/ handleDel \/ handleIPAMDel

\* C15: no step of a handler creates or deletes an IPInstance or changes the
\* spec (hardware address, network, address, version) of one; what a handler
\* writes to an instance is its status, and there the six fields of the
\* patch: sandboxID, nodeName, podNamespace, podName, phase (cleared) and
\* updateTimestamp. The engine and the Binding Store are left alone.
C15_HandshakeWritesStatusOnly ==
    [][ HandlerStep =>
          /\ { SpecOf(o) : o \in apiInstances' } = { SpecOf(o) : o \in apiInstances }
          /\ \A o \in apiInstances, w \in apiInstances' :
               (w.name = o.name /\ w.status # o.status) =>
                  /\ w.status = StatusPatch
                  /\ DOMAIN StatusPatch = {"sandboxID", "nodeName", "podNamespace",
                                           "podName", "phase", "updateTimestamp"}
                  /\ w.status.phase = ""
          /\ ipInstances' = ipInstances /\ used' = used ]_vars

\* a request has written the status of both instances of a dual-stack pod
C15_Witness ==
    /\ hpc = "idle" /\ responses # << >> /\ responses[1].code = 200
    /\ Cardinality({ o \in apiInstances : o.status = StatusPatch }) = 2


\* the last request was a handleDel that got as far as the teardown
TornDown(ok) ==
    /\ handler = "handleDel" /\ hpc = "idle"
    /\ Len(hcalls) = 1 /\ hcalls[1].op = "deleteNic" /\ hcalls[1].ok = ok

\* C18 as stated: a handleDel request answers 204 exactly when the teardown
\* of the interface reports success, and 500 in every other case.
C18_DelNoContentOrServerError ==
    [][ handleDel =>
          IF TornDown(TRUE)' THEN responses'[1].code = 204
          ELSE responses'[1].code = 500 ]_vars

\* C18: a handleDel request whose body cannot be parsed is answered 400 and
\* tears nothing down; every other request answers 204 with an empty body
\* exactly when the teardown of the interface reports success, and 500 with
\* an error body when it reports an error; no request writes to the engine,
\* the Binding Store or an IPInstance; and for a namespace whose interface is
\* already torn down the teardown, and so the request, succeeds again.
C18_DelRespondsByTeardown ==
    /\ [][ handleDel =>
             /\ apiInstances' = apiInstances /\ ipInstances' = ipInstances
             /\ used' = used
             /\ Len(responses') = 1
             /\ responses'[1].code = 204 <=> TornDown(TRUE)'
             /\ TornDown(TRUE)' => responses'[1] = Response(204, "", 0, 0, << >>)
             /\ responses'[1].code = 500 <=> TornDown(FALSE)'
             /\ TornDown(FALSE)' => responses'[1].err # ""
             /\ (hcalls' = << >>) => responses'[1].code = 400 /\ nic' = nic
             /\ (nic = "absent" /\ hcalls' # << >>) =>
                  responses'[1].code = 204 /\ nic' = "absent" ]_vars
    /\ [] (handler = "handleDel" => hpc = "idle" /\ Len(responses) = 1)

\* a second handleDel found the interface torn down and answered 204
C18_Witness ==
    /\ TornDown(TRUE) /\ hcalls[1].arg = "absent"
    /\ responses = << Response(204, "", 0, 0, << >>) >>
    /\ \E o \in apiInstances : o.status = StatusPatch

\* the instances share one hardware address and one network
Consistent(l) ==
    \A j \in 1 .. Len(l), k \in 1 .. Len(l) :
        l[j].mac = l[k].mac /\ l[j].network = l[k].network

\* C19: handleAdd never goes on to the network lookup, the interface
\* configuration or a status patch with observed instances that differ in
\* their hardware address or in their network: such a request ends with a 500
\* error at the validation.
C19_MismatchIsError ==
    /\ (handler = "handleAdd"
          /\ hpc \in {"getNetwork", "configureNic", "patchStatus"}) =>
          Consistent(ipInstanceList)
    /\ (handler = "handleAdd" /\ hpc = "idle" /\ hcalls # << >>
          /\ hcalls[Len(hcalls)].op \in {"GetNetwork", "configureNic", "PatchStatus"}) =>
          Consistent(ipInstanceList)

\* C20: handleIPAMAdd never writes the status of, and never returns with
\* success, instances that differ in their hardware address or their network.
C20_IPAMAddMismatchIsFatal ==
    handler = "handleIPAMAdd" =>
       /\ Patched # {} => Consistent(ipInstanceList)
       /\ \A k \in 1 .. Len(responses) :
            responses[k].code = 200 =>
               \A a \in Range(responses[k].addresses),
                  b \in Range(responses[k].addresses) : a.mac = b.mac


\* the last event of pod p was a re-delivery and has returned
Redelivered(p, prevs) == pc[p] = "idle" /\ delivery[p].prev \in prevs

SameAsDelivered(p) ==
    used = delivery[p].used /\ ipInstances = delivery[p].ipInstances

\* the step is one of an event of pod p
StepOf(p) == pc'[p] # pc[p] \/ calls'[p] # calls[p]

\* C14 as stated: whatever the event before it returned, an event delivered
\* again with nothing changed in between leaves engine and store as it found
\* them (p1 is the pod whose events find a pod to work on).
C14_RedeliveryChangesNothing ==
    Redelivered("p1", {"success", "error"}) => SameAsDelivered("p1")

\* C14: when an event returned without error and is delivered again with no
\* change of the pod in between, no step of the re-delivered event changes
\* the engine or the Binding Store, and at its return both are as they were
\* when it started: running Reconcile again yields the state of running it
\* once.
C14_IdempotentReconcile ==
    /\ [][ \A p \in Pods :
             (delivery'[p].prev = "success" /\ StepOf(p)) =>
                used' = used /\ ipInstances' = ipInstances ]_vars
    /\ [] (Redelivered("p1", {"success"}) => SameAsDelivered("p1"))

\* re-delivered events that had work to do or to skip: a decouple of a
\* terminated pod, and a live pod holding its addresses behind the fence
C14_Witness ==
    /\ Redelivered("p1", {"success"})
    /\ \/ /\ pod["p1"].terminated /\ "DeCouple" \in Ops("p1")
       \/ /\ pod["p1"].annotationIP /\ UsingOf("p1") # {}
          /\ ~ pod["p1"].terminated /\ ~ pod["p1"].deleting


\* the call the event of pod p made last
LastCallWas(p, op, ok) ==
    calls[p] # << >> /\ LastCall(p).op = op /\ LastCall(p).ok = ok

\* a scheduled stateless pod that is not terminating and has no marker
Unmarked(p) ==
    /\ pod[p].exists /\ ~ pod[p].deleting /\ ~ pod[p].terminated
    /\ ~ podSpec[p].stateful /\ ~ pod[p].annotationIP

\* the pod carries the marker and holds one coupled address of each version
\* of its family mode
AllCoupled(p) ==
    /\ pod[p].annotationIP
    /\ { VersionOf(i.address) : i \in UsingOf(p) } = Range(FamilyVersions(p))
    /\ Cardinality(UsingOf(p)) = Len(FamilyVersions(p))

\* selectNetwork, Allocate and Couple each eventually succeed for pod p:
\* none of them fails for ever
EventuallySucceed(p) ==
    /\ []<>(selectNetwork(p).err = "")
    /\ []<>LastCallWas(p, "Allocate", FALSE) => []<>LastCallWas(p, "Allocate", TRUE)
    /\ []<>LastCallWas(p, "Couple", FALSE) => []<>LastCallWas(p, "Couple", TRUE)

\* C17: under fair re-delivery of events, and if selectNetwork, Allocate and
\* Couple each eventually succeed, every scheduled, non-terminating stateless
\* pod without the address-assigned marker eventually has all its addresses
\* coupled and carries the marker.
C17_EventuallyCoupled ==
    \A p \in Pods : EventuallySucceed(p) => (Unmarked(p) ~> AllCoupled(p))

\* a pod got there after a failed Couple whose release failed as well
C17_Witness ==
    /\ AllCoupled("p1") /\ ~ podSpec["p1"].stateful
    /\ \E a \in used : \A i \in ipInstances : i.address # a


\* the explicit network reference of pod p: the annotation, else the label
SpecifiedNetwork(p) ==
    IF podSpec[p].networkAnn # "" THEN podSpec[p].networkAnn
    ELSE podSpec[p].networkLabel

\* the network type pod p hints at: the annotation, else the label
NetworkTypeOf(p) ==
    ParseNetworkTypeFromString(
        IF podSpec[p].typeAnn # "" THEN podSpec[p].typeAnn ELSE podSpec[p].typeLabel)

\* the node name the lookup for the network type of pod p lists the networks of
LookupNode(p) ==
    CASE NetworkTypeOf(p) = Underlay -> podSpec[p].nodeName
      [] NetworkTypeOf(p) = Overlay -> OverlayNodeName
      [] NetworkTypeOf(p) = GlobalBGP -> GlobalBGPNodeName
      [] OTHER -> ""

\* C21: whenever the pod carries an explicit network name (annotation if
\* non-empty, else label), selectNetwork returns that name with no error and
\* without any network lookup, whatever the type hint, the pod's node and the
\* bindings are; the lookup by type is made only when there is no explicit
\* name.
C21_ExplicitNetworkFirst ==
    \A p \in Pods :
       /\ SpecifiedNetwork(p) # "" =>
             selectNetwork(p) =
                [name |-> SpecifiedNetwork(p), err |-> "", lookups |-> << >>]
       /\ selectNetwork(p).lookups # << >> => SpecifiedNetwork(p) = ""
       /\ (podSpec[p].networkAnn # "" /\ pc[p] = "allocate") =>
             selectNetwork(p).name = podSpec[p].networkAnn

\* an event took the network the label names although the pod hints at the
\* global BGP class, for which a different network is bound
C21_Witness ==
    /\ podSpec["p1"].networkAnn = "" /\ podSpec["p1"].networkLabel = "net2"
    /\ NetworkTypeOf("p1") = GlobalBGP
    /\ getNetworkByNodeNameIndexer(GlobalBGPNodeName).name = NetworkName
    /\ pc["p1"] = "allocate" /\ selectNetwork("p1").name = "net2"

\* what the lookup for the type of pod p finds
Found(p) == getNetworkByNodeNameIndexer(LookupNode(p))

\* C22: selectNetwork never returns an empty name with a nil error, and a name
\* it returns is the explicit reference or the first network the lookup for
\* the pod's type found; without an explicit reference it returns an error
\* when the type is one of the three and the lookup fails or finds nothing,
\* and when the type is none of the three.
C22_NeverSilentDefault ==
    \A p \in Pods :
       LET r == selectNetwork(p)
       IN  /\ r.err = "" => r.name # ""
           /\ r.err # "" => r.name = ""
           /\ r.err = "" =>
                \/ r.name = SpecifiedNetwork(p)
                \/ /\ SpecifiedNetwork(p) = "" /\ LookupNode(p) # ""
                   /\ Found(p).err = "" /\ r.name = Found(p).name
                   /\ r.lookups = << LookupNode(p) >>
           /\ (SpecifiedNetwork(p) = "" /\ LookupNode(p) = "") => r.err # ""
           /\ (SpecifiedNetwork(p) = "" /\ LookupNode(p) # ""
                 /\ (Found(p).err # "" \/ Found(p).name = "")) => r.err # ""
           /\ (pc[p] \in {"allocate", "addFinalizer"}) => r.err = ""

\* an overlay pod on node1, where net1 is bound, found no network on the
\* overlay fabric and its event returned the error
C22_Witness ==
    /\ SpecifiedNetwork("p1") = "" /\ NetworkTypeOf("p1") = Overlay
    /\ podSpec["p1"].nodeName = "node1"
    /\ getNetworkByNodeNameIndexer("node1").name = "net2"
    /\ pc["p1"] = "idle" /\ result["p1"] = "unable to select network"


\* the steps of an allocation event that call the engine or the store
AllocationSteps ==
    {"listAllocated", "recycle", "listIPs", "allocate", "couple",
     "allocateRelease", "assign", "recouple", "assignRelease"}

\* the event of pod p made a call other than the finalizer patch
EngineOrStoreCalled(p) ==
    \E k \in 1 .. Len(calls[p]) : calls[p][k].op # "PatchAddFinalizer"

\* C23: an allocation event of a stateful pod calls the engine or the store
\* only with the allocation finalizer on the pod, on every sub-path and in
\* both stack modes; when adding the finalizer fails the event returns that
\* error and has made no engine or store call; so every stateful pod holding
\* a coupled address carries the finalizer.
C23_FinalizerFirst ==
    /\ [][ \A p \in Pods :
             (podSpec[p].stateful /\ pc[p] \in AllocationSteps
                /\ calls'[p] # calls[p]) => pod[p].finalizer ]_vars
    /\ [] \A p \in Pods :
            /\ (podSpec[p].stateful /\ pc[p] \in AllocationSteps) =>
                  pod[p].finalizer
            /\ (pc[p] = "idle"
                  /\ result[p] = "unable to add finalizer for stateful pod") =>
                  calls[p] = << Call("PatchAddFinalizer", << >>, FALSE, FALSE) >>
            /\ (pc[p] = "addFinalizer") => calls[p] = << >>
            /\ (podSpec[p].stateful /\ pod[p].exists /\ UsingOf(p) # {}) =>
                  pod[p].finalizer

\* a stateful pod with the finalizer holds the address its pool names
C23_Witness ==
    /\ podSpec["p1"].stateful /\ pod["p1"].finalizer /\ preAssign("p1")
    /\ UsingOf("p1") # {} /\ pc["p1"] = "idle"
    /\ "ReCouple" \in Ops("p1")


\* the step leaves the pod, the engine and the Binding Store alone
NoWrite == pod' = pod /\ used' = used /\ ipInstances' = ipInstances

\* the pod an event of p fetches is deleting and not of a stateful workload
DeletingStateless(p) ==
    pod[p].exists /\ pod[p].deleting /\ ~ podSpec[p].stateful

\* C24: an event for a deleting pod that is not owned by a stateful workload
\* returns success at once: it makes no engine call, no store call and no
\* finalizer patch, with or without the assigned marker, evicted or completed
\* or not.
C24_DeletingStatelessNoOp ==
    /\ [][ \A p \in Pods :
             (Redelivery(p) /\ DeletingStateless(p)) =>
                /\ pc'[p] = "idle" /\ result'[p] = Nil /\ calls'[p] = << >>
                /\ NoWrite ]_vars
    /\ [] \A p \in Pods :
            (DeletingStateless(p) /\ delivery[p].prev # "changed") =>
               pc[p] = "idle" /\ result[p] = Nil /\ calls[p] = << >>

\* the event of a deleting stateless pod that is completed and still holds its
\* address behind the marker has returned
C24_Witness ==
    /\ DeletingStateless("p1") /\ delivery["p1"].prev = "first"
    /\ pod["p1"].annotationIP /\ pod["p1"].terminated /\ UsingOf("p1") # {}
    /\ pc["p1"] = "idle" /\ result["p1"] = Nil /\ calls["p1"] = << >>

\* the pod an event of p fetches is evicted or completed and not deleting
Terminated(p) == pod[p].exists /\ pod[p].terminated /\ ~ pod[p].deleting

\* C25: an event for a pod that is evicted or completed and not deleting makes
\* exactly one call, the store's DeCouple: no engine call, no Couple or
\* ReCouple and no finalizer patch; the marker does not change that, the
\* decouple state is taken before the fence.
C25_TerminatedDecouplesOnce ==
    /\ [][ \A p \in Pods :
             /\ (Reconcile(p) /\ Terminated(p)) =>
                   /\ pc'[p] = "decouple" /\ calls'[p] = << >> /\ NoWrite
             /\ (pc[p] = "decouple" /\ calls'[p] # calls[p]) =>
                   /\ pc'[p] = "idle" /\ pod' = pod
                   /\ \E ok \in BOOLEAN :
                        /\ calls'[p] = << Call("DeCouple", << >>, FALSE, ok) >>
                        /\ result'[p] = IF ok THEN Nil ELSE "unable to decouple pod"
                   ]_vars
    /\ [] \A p \in Pods :
            /\ pc[p] = "decouple" => calls[p] = << >>
            /\ "DeCouple" \in Ops(p) => Len(calls[p]) = 1

\* a completed pod that carried the marker was decoupled by its event
C25_Witness ==
    /\ Terminated("p1") /\ pod["p1"].annotationIP /\ InstancesOf("p1") = {}
    /\ pc["p1"] = "idle"
    /\ calls["p1"] = << Call("DeCouple", << >>, FALSE, TRUE) >>

\* the pod an event of p fetches is live, has no marker, and no network can be
\* selected for it
SelectFails(p) ==
    /\ pod[p].exists /\ ~ pod[p].deleting /\ ~ pod[p].terminated
    /\ ~ pod[p].annotationIP /\ selectNetwork(p).err # ""

\* C27: when selectNetwork returns an error the event returns the selection
\* error at once, for stateless and stateful pods alike: it has made no engine
\* call, no store call and no finalizer patch, and the selection wrote
\* nothing.
C27_SelectionErrorAborts ==
    /\ [][ \A p \in Pods :
             (Reconcile(p) /\ SelectFails(p)) =>
                /\ pc'[p] = "idle" /\ result'[p] = "unable to select network"
                /\ calls'[p] = << >> /\ NoWrite ]_vars
    /\ [] \A p \in Pods :
            /\ result[p] = "unable to select network" =>
                  /\ pc[p] = "idle" /\ calls[p] = << >> /\ ~ pod[p].finalizer
                  /\ used = {} /\ ipInstances = {}
            /\ pc[p] # "idle" => selectNetwork(p).err = ""

\* the event of a stateful underlay pod whose node lists no network returned
\* the selection error
C27_Witness ==
    /\ podSpec["p1"].stateful /\ NetworkTypeOf("p1") = Underlay
    /\ SelectFails("p1") /\ pc["p1"] = "idle"
    /\ result["p1"] = "unable to select network"


\* the pool entry at the ordinal of pod p, << >> when the pool is too short
PoolEntry(p) ==
    IF GetIndexFromName(p) < Len(podSpec[p].ipPool)
    THEN podSpec[p].ipPool[GetIndexFromName(p) + 1]
    ELSE << >>

\* the candidates of the pre-assignment of pod p: the addresses of the entry
\* in dual-stack mode, its one address in single-stack mode, << >> when there
\* is none
Candidates(p) ==
    IF dualStack THEN PoolEntry(p)
    ELSE IF Len(PoolEntry(p)) = 1 /\ PoolEntry(p)[1] # 0 THEN PoolEntry(p)
    ELSE << >>

\* C26: the allocation event of a stateful pod with a non-empty IP pool takes
\* the pre-assignment whatever the retention decision is: its candidates are
\* the pool entry at the pod's ordinal, they are assigned with forced = true
\* and then re-coupled, and the event makes no Allocate, no recycle and no
\* list call; when the ordinal is outside the pool, or the entry holds no
\* address in single-stack mode, the event returns an error and has made no
\* engine or store call.
C26_PreAssignFromPool ==
    /\ [][ \A p \in Pods :
             (podSpec[p].stateful /\ preAssign(p) /\ pc[p] = "addFinalizer"
                /\ pc'[p] # "addFinalizer") =>
                IF result'[p] = "unable to add finalizer for stateful pod"
                THEN pc'[p] = "idle"
                ELSE IF Candidates(p) = << >>
                THEN /\ pc'[p] = "idle"
                     /\ result'[p] = "no available ip in ip-pool"
                     /\ used' = used /\ ipInstances' = ipInstances
                ELSE pc'[p] = "assign" /\ cands'[p] = Candidates(p) ]_vars
    /\ [] \A p \in Pods :
            (podSpec[p].stateful /\ preAssign(p)) =>
               /\ Ops(p) \cap {"Allocate", "Couple", "IPRecycle", "ListIPsOfPod",
                               "ListAllocatedIPInstancesOfPod"} = {}
               /\ pc[p] \notin {"listAllocated", "recycle", "listIPs",
                                "allocate", "couple", "allocateRelease"}
               /\ \A k \in 1 .. Len(calls[p]) :
                    /\ calls[p][k].op = "Assign" =>
                         /\ calls[p][k].forced /\ Candidates(p) # << >>
                         /\ calls[p][k].ok =>
                              squashIPSliceToIPs(calls[p][k].ips) = Candidates(p)
                    /\ calls[p][k].op = "ReCouple" =>
                         /\ k > 1 /\ calls[p][k - 1].op = "Assign"
                         /\ calls[p][k - 1].ok
                         /\ calls[p][k].ips = calls[p][k - 1].ips
               /\ (pc[p] = "idle" /\ result[p] = "no available ip in ip-pool") =>
                    ~ EngineOrStoreCalled(p)

\* a pod whose addresses are not to be retained got the address its pool names
C26_Witness ==
    /\ podSpec["p1"].stateful /\ preAssign("p1") /\ shouldReallocate("p1")
    /\ pc["p1"] = "idle" /\ result["p1"] = Nil
    /\ \E k \in 1 .. Len(calls["p1"]) :
         calls["p1"][k].op = "ReCouple" /\ calls["p1"][k].ok
    /\ { i.address : i \in UsingOf("p1") } = Range(Candidates("p1"))


\* the event of pod p has returned and its last call, the compensating
\* Release after a failed Couple, failed as well
ReleaseFailedToo(p) ==
    /\ pc[p] = "idle" /\ Len(calls[p]) >= 2
    /\ LastCall(p).op = "Release" /\ ~ LastCall(p).ok
    /\ calls[p][Len(calls[p]) - 1].op = "Couple"
    /\ ~ calls[p][Len(calls[p]) - 1].ok

\* C28: when the store's Couple fails and the compensating engine Release
\* fails as well, the event returns the coupling error: the failure of the
\* Release neither replaces it nor makes the event a success.
C28_CouplingErrorReturned ==
    /\ [][ \A p \in Pods :
             (pc[p] = "allocateRelease" /\ pc'[p] # pc[p]) =>
                /\ result[p] = "unable to couple ip with pod"
                /\ result'[p] = result[p] /\ pc'[p] = "idle" ]_vars
    /\ [] \A p \in Pods :
            ReleaseFailedToo(p) => result[p] = "unable to couple ip with pod"

\* a dual-stack event returned after its Couple and its Release both failed,
\* with both addresses still marked used
C28_Witness ==
    /\ ReleaseFailedToo("p1") /\ CoupleFailed("p1", 2)
    /\ Range(squashIPSliceToIPs(LastCall("p1").ips)) \subseteq used
    /\ result["p1"] = "unable to couple ip with pod"

\* an add handler serves a request whose pod it has read
AddHandlerReadPod ==
    handler \in {"handleAdd", "handleIPAMAdd"} /\ podFamily # NoPodFamily

KnownFamily == ipFamily \in {IPv4, IPv6, DualStack}

\* some instance object has another status after the step
StatusWritten ==
    \E o \in apiInstances, n \in apiInstances' :
       o.name = n.name /\ o.status # n.status

\* the number of addresses the claim gives each mode
ExpectedCount == IF ipFamily = DualStack THEN 2 ELSE 1

\* C29: in both add handlers the mode is the parsed annotation of a pod marked
\* handled-by-webhook and what the priority rules give otherwise; a request
\* gets past its poll loop only with one observed instance when the mode is
\* IPv4 or IPv6 and two when it is DualStack, and a timeout reports that
\* number as expected; with any other mode the request makes no call (no
\* interface configuration, no status patch) and ends with a 400 error.
C29_ExpectedCountByFamily ==
    /\ [] (AddHandlerReadPod =>
             /\ ipFamily = IF podFamily.handledByWebhook
                           THEN ParseIPFamilyFromString(podFamily.annotation)
                           ELSE podFamily.byPriority
             /\ PastPoll => KnownFamily /\ Len(ipInstanceList) = ExpectedCount
             /\ \A k \in 1 .. Len(responses) :
                  /\ responses[k].err = "failed to wait for pod to be coupled with ip" =>
                        KnownFamily /\ responses[k].expect = ExpectedCount
                                    /\ responses[k].get # ExpectedCount
                  /\ responses[k].code = 200 =>
                        KnownFamily /\ Len(responses[k].addresses) = ExpectedCount
             /\ ~ KnownFamily =>
                  /\ hpc \in {"poll", "idle"}
                  /\ hcalls = << >>
                  /\ hpc = "idle" => Len(responses) = 1 /\ responses[1].code = 400)
    /\ [][ (AddHandlerReadPod /\ ~ KnownFamily) =>
              \/ hpc = "idle"
              \/ nic' = nic /\ ~ StatusWritten ]_vars

\* handleAdd has answered 400 for a pod the webhook has not marked, whose
\* annotation asks for two families and whose rules give an unknown mode,
\* with two instances listed
C29_Witness ==
    /\ handler = "handleAdd" /\ hpc = "idle"
    /\ podFamily = PodFamily(DualStack, FALSE, "Unknown")
    /\ Len(ipInstanceList) = 2
    /\ responses = << errorWrapper("invalid ip family", 400) >>

\* the calls of the request so far that went to op, with their results
CallsOf(op) == { k \in 1 .. Len(hcalls) : hcalls[k].op = op }

\* C30: in handleAdd every status patch follows a successful configureNic of
\* the same request; a request whose configureNic fails ends there with a 500
\* error, without a status patch call and with no status written.
C30_StatusAfterConfigureNic ==
    /\ [][ (handler = "handleAdd" /\ StatusWritten) =>
              \E j \in CallsOf("configureNic") : hcalls[j].ok ]_vars
    /\ [] (handler = "handleAdd" =>
             /\ \A k \in CallsOf("PatchStatus") :
                  \E j \in CallsOf("configureNic") : j < k /\ hcalls[j].ok
             /\ \A j \in CallsOf("configureNic") :
                  ~ hcalls[j].ok =>
                     /\ hpc = "idle"
                     /\ j = Len(hcalls)
                     /\ responses[Len(responses)].code = 500
                     /\ CallsOf("PatchStatus") = {})

\* handleAdd has answered 500 after the configuration of the interface failed
\* for two instances, whose statuses are as the controller left them
C30_Witness ==
    /\ handler = "handleAdd" /\ hpc = "idle"
    /\ Len(ipInstanceList) = 2
    /\ hcalls # << >>
    /\ hcalls[Len(hcalls)] = HCall("configureNic", "mac1", FALSE)
    /\ responses[Len(responses)] = errorWrapper("failed to configure nic", 500)
    /\ \A o \in apiInstances : o.status = CoupledStatus

\* the names of the instances the request observed
Observed == { ipInstanceList[k].name : k \in 1 .. Len(ipInstanceList) }

AddHandler == handler \in {"handleAdd", "handleIPAMAdd"}

\* C31: an add handler writes a 200 response only when the status patch
\* (sandboxID, nodeName, podNamespace, podName, phase cleared,
\* updateTimestamp) succeeded for every observed instance, which then carries
\* that status; a patch meets fewer conflicts than RetryOnConflict has
\* attempts; a patch that finally fails is the last call of the request, which
\* ends with a 500 response and no 200.
C31_OKOnlyIfAllPatched ==
    AddHandler =>
       /\ patchTries \in 0 .. DefaultRetrySteps - 1
       /\ patchTries > 0 => hpc = "patchStatus"
       /\ \A k \in 1 .. Len(responses) :
            responses[k].code = 200 =>
               /\ Patched = Observed
               /\ \A j \in CallsOf("PatchStatus") : hcalls[j].ok
               /\ \A o \in apiInstances :
                    o.name \in Observed =>
                       o.status = [sandboxID |-> ContainerID, nodeName |-> NodeName,
                                   podNamespace |-> PodNs, podName |-> PodName,
                                   phase |-> "", updateTimestamp |-> "now"]
       /\ \A j \in CallsOf("PatchStatus") :
            ~ hcalls[j].ok =>
               /\ j = Len(hcalls)
               /\ hpc = "idle"
               /\ responses[Len(responses)].code = 500
               /\ \A k \in 1 .. Len(responses) : responses[k].code # 200

\* an add request of a dual-stack pod has ended with a 500 after the patch of
\* its first instance succeeded and the patch of its second failed: the
\* first carries the new status, the second the one the controller left
C31_Witness ==
    /\ AddHandler /\ hpc = "idle" /\ Len(ipInstanceList) = 2
    /\ hcalls # << >>
    /\ hcalls[Len(hcalls)] = HCall("PatchStatus", ipInstanceList[2].name, FALSE)
    /\ Patched = {ipInstanceList[1].name}
    /\ responses[Len(responses)].code = 500
    /\ \E o \in apiInstances :
         o.name = ipInstanceList[2].name /\ o.status = CoupledStatus

\* the calico pod-IPs patch of the request failed
CalicoPatchFailed ==
    \E j \in CallsOf("PatchCalicoPodIPs") : ~ hcalls[j].ok

\* the response whose status line reaches the client: the first one written
Answer == responses[1]

\* what the steps after the calico patch made of the request
Outcome == responses[Len(responses)]

\* C32: a handleAdd request whose calico pod-IPs patch failed ends as it
\* would have without the failure: the response the client gets is the one
\* the later steps produce (its status and its addresses), and a request that
\* ends with success has configured the interface and patched the status of
\* every observed instance.
C32_CalicoFailureSwallowed ==
    (handler = "handleAdd" /\ hpc = "idle" /\ CalicoPatchFailed) =>
       /\ Answer.code = Outcome.code
       /\ Answer.addresses = Outcome.addresses
       /\ Outcome.code = 200 =>
            /\ \E j \in CallsOf("configureNic") : hcalls[j].ok
            /\ Patched = Observed

\* C33: when handleAdd returns it has written exactly one response, and the
\* response of an error is the last thing the request does: no interface
\* configuration, no status patch and no other response follows it.
C33_ExactlyOneResponse ==
    /\ [] (handler = "handleAdd" =>
             /\ hpc = "idle" => Len(responses) = 1
             /\ Len(responses) <= 1
             /\ (responses # << >> /\ responses[1].code # 200) => hpc = "idle")
    /\ [][ (handler = "handleAdd" /\ handler' = "handleAdd" /\ hpc # "idle"
              /\ responses # << >>) =>
               /\ hcalls' = hcalls
               /\ nic' = nic
               /\ ~ StatusWritten ]_vars

\* call k of the event of p is a ReCouple that failed after a forced Assign
\* that succeeded
ReCoupleFailedAt(p, k) ==
    /\ k \in 2 .. Len(calls[p])
    /\ calls[p][k].op = "ReCouple" /\ ~ calls[p][k].ok
    /\ calls[p][k - 1].op = "Assign" /\ calls[p][k - 1].ok /\ calls[p][k - 1].forced

\* C34: when the store's ReCouple fails after a forced Assign succeeded, the
\* next call of the event is one engine Release for exactly the assigned
\* addresses, and only then the event returns, with the ReCouple error.
C34_ReleaseAfterFailedReCouple ==
    /\ [] \A p \in Pods : \A k \in 1 .. Len(calls[p]) :
            ReCoupleFailedAt(p, k) =>
               /\ result[p] = "unable to force-couple ip with pod"
               /\ IF k = Len(calls[p])
                  THEN pc[p] = "assignRelease"
                  ELSE /\ calls[p][k + 1].op = "Release"
                       /\ calls[p][k + 1].ips = calls[p][k - 1].ips
                       /\ pc[p] = "idle" => k + 1 = Len(calls[p])
    /\ [][ \A p \in Pods :
             (pc[p] = "assignRelease" /\ pc'[p] # pc[p]) =>
                /\ pc'[p] = "idle" /\ result'[p] = result[p]
                /\ Len(calls'[p]) = Len(calls[p]) + 1
                /\ \A a \in Range(squashIPSliceToIPs(ips[p])) :
                     LastCall(p)'.ok => a \notin used' ]_vars

\* a dual-stack event has returned the ReCouple error after the Release of
\* both addresses it had assigned, which are free again
C34_Witness ==
    /\ pc["p1"] = "idle" /\ Len(calls["p1"]) >= 3
    /\ ReCoupleFailedAt("p1", Len(calls["p1"]) - 1)
    /\ LastCall("p1").op = "Release" /\ LastCall("p1").ok
    /\ Len(LastCall("p1").ips) = 2
    /\ Range(squashIPSliceToIPs(LastCall("p1").ips)) \cap used = {}
    /\ result["p1"] = "unable to force-couple ip with pod"

\* two of the instances have the same version, or one has a version that is
\* neither IPv4 nor IPv6
BadVersions(l) ==
    \/ \E k \in 1 .. Len(l) : l[k].version \notin {IPv4, IPv6}
    \/ \E j \in 1 .. Len(l), k \in 1 .. Len(l) :
          j # k /\ l[j].version = l[k].version

\* C35: a handleAdd request that observed as many instances as it expects,
\* two of them of the same version or one of a version other than IPv4 and
\* IPv6, never gets to the network lookup, the interface configuration or a
\* status patch: it ends with a 500 error at the validation.
C35_OneInstancePerVersion ==
    /\ [] ((/\ handler = "handleAdd"
            /\ Len(ipInstanceList) = expectIPNumber(ipFamily)
            /\ BadVersions(ipInstanceList)) =>
              /\ hpc \in {"poll", "patchCalico", "validate", "idle"}
              /\ CallsOf("GetNetwork") = {}
              /\ CallsOf("configureNic") = {}
              /\ CallsOf("PatchStatus") = {}
              /\ hpc = "idle" =>
                    /\ responses # << >>
                    /\ responses[Len(responses)].code = 500
                    /\ \A k \in 1 .. Len(responses) : responses[k].code # 200)
    /\ [][ (/\ handler = "handleAdd" /\ hpc \in {"patchCalico", "validate"}
            /\ BadVersions(ipInstanceList)) =>
               nic' = nic /\ ~ StatusWritten ]_vars

\* a dual-stack handleAdd request that observed two IPv4 instances of one
\* hardware address and one network has ended with a 500
C35_Witness ==
    /\ handler = "handleAdd" /\ hpc = "idle" /\ ipFamily = DualStack
    /\ Len(ipInstanceList) = 2
    /\ \A k \in 1 .. 2 :
         /\ ipInstanceList[k].version = IPv4
         /\ ipInstanceList[k].mac = "mac1"
         /\ ipInstanceList[k].network = NetworkName
    /\ responses[Len(responses)] =
         errorWrapper("only one address for each version", 500)

\* the instance objects that carry a deletion timestamp
Deleted == { o \in apiInstances : o.deleted }

\* the step is a list attempt of the poll loop that returned a list
ListAttempt ==
    /\ hpc = "poll"
    /\ apiInstances' = apiInstances
    /\ ~ (hpc' = "idle" /\ responses' # << >>
           /\ responses'[Len(responses')].err = "failed to list ip instances")

\* C36 as stated: a step of an add request never changes the status of an
\* instance that carries a deletion timestamp, and a 200 response names no
\* such instance.
C36_DeletedNeverPatched ==
    /\ [][ AddHandler =>
              \A o \in Deleted : \A n \in apiInstances' :
                 n.name = o.name => n.status = o.status ]_vars
    /\ [] (AddHandler =>
             \A k \in 1 .. Len(responses) :
                responses[k].code = 200 =>
                   \A o \in Deleted :
                      \A a \in Range(responses[k].addresses) : a.ip # o.name)

\* C36: a list attempt returns exactly the listed instances that carry no
\* deletion timestamp at that time, each once; only these are counted
\* against the expected number, named in a 200 response and status-patched.
C36_DeletedAtListNeverCounted ==
    /\ [][ (AddHandler /\ ListAttempt) =>
              /\ Range(ipInstanceList') = apiInstances \ Deleted
              /\ Len(ipInstanceList') = Cardinality(apiInstances \ Deleted)
              /\ (hpc' \in RequestPositions \ {"poll"}) =>
                    Cardinality(apiInstances \ Deleted) = expectIPNumber(ipFamily) ]_vars
    /\ [][ (AddHandler /\ hpc # "idle") =>
              \A o \in apiInstances : \A n \in apiInstances' :
                 (n.name = o.name /\ n.status # o.status) => o.name \in Observed ]_vars
    /\ [] (AddHandler =>
             /\ \A k \in 1 .. Len(ipInstanceList) : ~ ipInstanceList[k].deleted
             /\ Patched \subseteq Observed
             /\ \A k \in 1 .. Len(responses) :
                  responses[k].code = 200 =>
                     { a.ip : a \in Range(responses[k].addresses) } = Observed)

\* an add request of an IPv4 pod has ended with a 200 for the one instance
\* without a deletion timestamp; the instance deleted before the list is not
\* in the response and has the status the controller left
C36_Witness ==
    /\ AddHandler /\ hpc = "idle" /\ ipFamily = IPv4
    /\ responses # << >> /\ responses[Len(responses)].code = 200
    /\ Len(ipInstanceList) = 1 /\ Patched = Observed
    /\ \E o \in Deleted :
         /\ o.name < ipInstanceList[1].name
         /\ o.status = CoupledStatus
         /\ \A a \in Range(responses[Len(responses)].addresses) : a.ip # o.name

\* an event of pod p is handed to Reconcile in this step
Admitted(p) ==
    delivery'[p] # delivery[p] /\ delivery'[p].prev # "changed"

\* C37: an event reaches Reconcile through the filter only for a pod that is
\* not host-networked and that either has no deletion timestamp, is scheduled
\* and carries no address-assigned annotation, or has a deletion timestamp
\* and is owned by a stateful workload.
C37_FilterAdmits ==
    [][ \A p \in Pods :
          Admitted(p) =>
             /\ pod[p].exists
             /\ ~ podSpec[p].hostNetwork
             /\ \/ /\ ~ pod[p].deleting
                   /\ podSpec[p].nodeName # ""
                   /\ ~ pod[p].annotationIP
                \/ /\ pod[p].deleting
                   /\ podSpec[p].stateful ]_vars

\* the event of a terminating pod of a stateful workload, unscheduled, has
\* passed the filter and reserves the pod's addresses
C37_Witness ==
    /\ pod["p1"].deleting /\ podSpec["p1"].stateful
    /\ podSpec["p1"].nodeName = ""
    /\ delivery["p1"].prev = "first"
    /\ pc["p1"] = "reserve"

=============================================================================
